---- MODULE Spec2Model ----
(***************************************************************************)
(* efx-ai-skills: the link reconciliation engine of the manage view        *)
(* (loadSkillsForProvider / applySkillChanges) and of the skill store      *)
(* (Store.LinkToProvider / Store.UnlinkFromProvider), over a model of the  *)
(* central store directory and of the provider directories.                *)
(***************************************************************************)
EXTENDS Integers, Sequences, FiniteSets, TLC

(***************************************************************************)
(* Names are Go strings, compared bytewise.  Bytes gives the bytes of each *)
(* string the model uses: the skill names and their groups.                *)
(***************************************************************************)
Bytes ==
    "auth-jwt" :> <<97, 117, 116, 104, 45, 106, 119, 116>> @@
    "react-best-practices" :> <<114, 101, 97, 99, 116, 45, 98, 101, 115, 116, 45,
        112, 114, 97, 99, 116, 105, 99, 101, 115>> @@
    "vue-testing" :> <<118, 117, 101, 45, 116, 101, 115, 116, 105, 110, 103>> @@
    "docker" :> <<100, 111, 99, 107, 101, 114>> @@
    "AWS-s3" :> <<65, 87, 83, 45, 115, 51>> @@
    "auth-oidc" :> <<97, 117, 116, 104, 45, 111, 105, 100, 99>> @@
    "_other-tools" :> <<95, 111, 116, 104, 101, 114, 45, 116, 111, 111, 108,
        115>> @@
    ".DS_Store" :> <<46, 68, 83, 95, 83, 116, 111, 114, 101>> @@
    "auth" :> <<97, 117, 116, 104>> @@
    "react" :> <<114, 101, 97, 99, 116>> @@
    "vue" :> <<118, 117, 101>> @@
    "AWS" :> <<65, 87, 83>> @@
    "_other" :> <<95, 111, 116, 104, 101, 114>>

\* The string of a sequence of bytes.
Str(b) == CHOOSE s \in DOMAIN Bytes : Bytes[s] = b

\* "-", the separator of strings.Split(name, "-")
Dash == 45

\* The name sets a behaviour's file system is drawn from.
ScenarioNames == {"auth-jwt", "react-best-practices", "vue-testing"}

MixedNames == {"auth-jwt", "docker", "AWS-s3"}

\* The names the grouped listing is built from, and how many of them.
GroupNames == {"auth-jwt", "auth-oidc", "docker", "AWS-s3", "_other-tools"}

MaxNames == 4

\* The skill names a registry answers with, and how many skills an answer
\* holds at most.
SearchNames == {"react", "vue", "docker"}

MaxResults == 2

\* The keys pressed in the terminal program, those of them that are
\* printable characters, and how many characters are typed into the query.
Keys == {"q", "ctrl+c", "s", "esc", "tab", "enter", "c"}

Printable == {"q", "s", "c", "a", "/", " "}

MaxQuery == 2

\* Number of changes made to the file system by other programs in one behaviour.
MaxEnv == 1

(***************************************************************************)
(* String helpers.                                                         *)
(***************************************************************************)
RECURSIVE BytesLess(_, _)
BytesLess(a, b) ==
    IF b = <<>> THEN FALSE
    ELSE IF a = <<>> THEN TRUE
    ELSE IF Head(a) # Head(b) THEN Head(a) < Head(b)
    ELSE BytesLess(Tail(a), Tail(b))

\* Go's s < t on strings.
StrLess(s, t) == BytesLess(Bytes[s], Bytes[t])

\* strings.Split(name, "-")[0] when the name holds a "-", else "_other".
extractGroup(name) ==
    LET b    == Bytes[name]
        seps == {i \in 1..Len(b) : b[i] = Dash}
    IN  IF seps # {}
        THEN Str(SubSeq(b, 1, (CHOOSE i \in seps : \A j \in seps : i <= j) - 1))
        ELSE "_other"

(***************************************************************************)
(* The file system.                                                        *)
(*   store[n]   : what ~/.agents/skills/n is                               *)
(*   provDir[p] : the provider directory of p: whether it exists, and what *)
(*                each entry n of it is                                    *)
(* "managed" is a symbolic link whose target is the central store's path   *)
(* for the same name (what os.Symlink(relPath, linkPath) creates);         *)
(* "symlink" is a symbolic link to an existing target elsewhere; "dir" is  *)
(* a non-empty directory.                                                  *)
(***************************************************************************)
VARIABLES store, provDir, envCount

StoreKind == {"none", "dir", "file"}

EntryKind == {"none", "file", "emptydir", "dir", "managed", "symlink"}

Names == DOMAIN store

Providers == DOMAIN provDir

fsVars == <<store, provDir, envCount>>

\* os.ReadDir: the names of the entries, sorted by filename.
RECURSIVE SortedNames(_)
SortedNames(S) ==
    IF S = {} THEN <<>>
    ELSE LET m == CHOOSE x \in S : \A y \in S : x = y \/ StrLess(x, y)
         IN  <<m>> \o SortedNames(S \ {m})

ReadDir(listing) == SortedNames({n \in DOMAIN listing : listing[n] # "none"})

\* os.ReadDir(provider.Path); an error (no such directory) reads as no entry.
ReadDirProvider(dir) == IF dir.exists THEN ReadDir(dir.ent) ELSE <<>>

Range(s) == {s[i] : i \in 1..Len(s)}

\* The Link State Reader's classification of entry n of a provider directory
\* against central store st (spec section 4.3): ManagedLinked is a symbolic
\* link that resolves to the store's entry of the same name.
Classify(dir, st, n) ==
    IF ~dir.exists \/ dir.ent[n] = "none" THEN "Absent"
    ELSE IF dir.ent[n] = "managed" /\ st[n] # "none" THEN "ManagedLinked"
    ELSE "Foreign"

(***************************************************************************)
(* The manage view (manageModel) of one provider.                          *)
(*   view        : model.state, "status" or "manage"                       *)
(*   manageModel : provider (the Provider value the view was opened with)  *)
(*                 and skills (the SkillEntry list)                        *)
(*   seen        : history: the provider directory and the store as they   *)
(*                 were when manageModel.skills was read                   *)
(*   last        : history of the last engine operation: what it read,     *)
(*                 what it did and what it left                            *)
(***************************************************************************)
VARIABLES view, manageModel, seen, last

mVars == <<view, manageModel, seen>>

(***************************************************************************)
(* The lock ledger ~/.agents/.skill-lock.json.                             *)
(*   lockFile : the file on disk: missing, not readable as JSON, or a      *)
(*              document                                                   *)
(*   now      : the clock time.Now() reads, in seconds                     *)
(*   lastLock : history of the last ledger operation                       *)
(***************************************************************************)
VARIABLES lockFile, now, lastLock

lockVars == <<lockFile, now, lastLock>>

\* A lock file that holds no document, and the LockFile value of no load.
NoLockFile ==
    [kind |-> "missing", version |-> 0, null |-> FALSE, skills |-> <<>>,
     unknown |-> FALSE]

NoLock == [Version |-> 0, nil |-> TRUE, Skills |-> <<>>]

NoLastLock ==
    [op |-> "none", name |-> "", source |-> "", now |-> 0, pre |-> NoLockFile,
     loaded |-> NoLock, post |-> NoLockFile, res |-> "none"]

\* The ledger at rest, in the behaviours that do not touch it.
LockIdle == lockFile = NoLockFile /\ now = 0 /\ lastLock = NoLastLock

(***************************************************************************)
(* Listing the central store.                                              *)
(*   storeState : whether ~/.agents/skills can be listed: "ok", "missing", *)
(*                or "unreadable" (it exists and os.ReadDir fails)         *)
(*   lastList   : history of the last listing of the store                 *)
(***************************************************************************)
VARIABLES storeState, lastList

listVars == <<storeState, lastList>>

NoLastList ==
    [op |-> "none", state |-> "ok", store |-> <<>>, skills |-> {},
     total |-> 0, err |-> FALSE]

ListIdle == storeState = "ok" /\ lastList = NoLastList

(***************************************************************************)
(* Probing the providers (detectProviders, provider.DetectAll).            *)
(*   probe : the position of a probe in its loop over the registry, what   *)
(*           os.Stat answered for the provider at hand, and the Provider   *)
(*           values appended so far                                        *)
(***************************************************************************)
VARIABLES probe

probeVars == <<probe>>

NoProbe == [pc |-> "idle", i |-> 0, out |-> <<>>, lost |-> {}]

ProbeIdle == probe = NoProbe

(***************************************************************************)
(* The status view and the config view.                                    *)
(*   statusModel : providers, as loadProviders returned them               *)
(*   configModel : providers, section and dirty of the config view         *)
(*   configFile  : enabled_providers of ~/.config/efx-skills/config.json,  *)
(*                 when it was saved                                       *)
(***************************************************************************)
VARIABLES statusModel, configModel, configFile

cfgVars == <<statusModel, configModel, configFile>>

NoConfigFile == [saved |-> FALSE, enabled_providers |-> <<>>]

CfgIdle ==
    /\ statusModel = [providers |-> <<>>]
    /\ configModel = [providers |-> <<>>, dirty |-> FALSE]
    /\ configFile = NoConfigFile

(***************************************************************************)
(* The provider package (provider.Get, Provider.Configure).                *)
(*   pkgProvider   : the *Provider a caller holds                          *)
(*   lastConfigure : history of the last Configure call                    *)
(***************************************************************************)
VARIABLES pkgProvider, lastConfigure

pkgVars == <<pkgProvider, lastConfigure>>

NoPkgProvider == [Name |-> "", Configured |-> FALSE, SkillCount |-> 0]

NoLastConfigure ==
    [op |-> "none", pre |-> NoPkgProvider, preDir |-> <<>>, fail |-> FALSE,
     err |-> FALSE, post |-> NoPkgProvider, postDir |-> <<>>]

PkgIdle == pkgProvider = NoPkgProvider /\ lastConfigure = NoLastConfigure

(***************************************************************************)
(* Grouping the skills of the manage view.                                 *)
(*   groupIn   : the skill names in the order they are appended to skills  *)
(*   lastGroup : history: the sorted skills and the display list built     *)
(*               from them                                                 *)
(***************************************************************************)
VARIABLES groupIn, lastGroup

groupVars == <<groupIn, lastGroup>>

NoLastGroup == [op |-> "none", skills |-> <<>>, displayList |-> <<>>]

GroupIdle == groupIn = <<>> /\ lastGroup = NoLastGroup

(***************************************************************************)
(* Searching the registries (api.SearchAll).                               *)
(*   registry   : what skills.sh and playbooks.com answer to the query     *)
(*   lastSearch : history of the last SearchAll call                       *)
(***************************************************************************)
VARIABLES registry, lastSearch

searchVars == <<registry, lastSearch>>

NoAnswer == [err |-> FALSE, results |-> <<>>]

NoLastSearch ==
    [op |-> "none", skills |-> <<>>, err |-> FALSE, msg |-> "none"]

SearchIdle ==
    /\ registry = [skillsSh |-> NoAnswer, playbooks |-> NoAnswer]
    /\ lastSearch = NoLastSearch

(***************************************************************************)
(* The terminal program (model) around the views.                          *)
(*   tui     : quit (tea.Quit was returned), searchModel, previewModel and *)
(*             cmds, the commands that were returned and whose message was *)
(*             not handled yet                                             *)
(*   lastKey : history: the last key pressed and the view it was pressed   *)
(*             in, until the next message is handled                       *)
(* model.state is the variable view; statusModel is the status view's.     *)
(***************************************************************************)
VARIABLES tui, lastKey

tuiVars == <<tui, lastKey>>

\* The zero value of searchModel, and what newSearchModel() returns.
ZeroSearchModel ==
    [input |-> <<>>, focusOnInput |-> FALSE, loading |-> FALSE,
     results |-> FALSE]

\* The zero value of previewModel.
ZeroPreviewModel == [loading |-> FALSE, shown |-> "none"]

NoKey == [key |-> "", from |-> ""]

TuiIdle ==
    /\ tui = [quit |-> FALSE, searchModel |-> ZeroSearchModel,
              previewModel |-> ZeroPreviewModel, cmds |-> {}]
    /\ lastKey = NoKey

(***************************************************************************)
(* The keys of the config view and its save command.                       *)
(*   configView    : the configModel of the program's config view          *)
(*                   (section, registries, repos, providers, dirty,        *)
(*                   addingRepo, textInput) and saves, the saveConfig      *)
(*                   commands that were returned and have not run yet,     *)
(*                   each with the copy of the model it was bound to       *)
(*   configDisk    : the ConfigData last written to the config file        *)
(*   lastConfigKey : history: the last key pressed, the view it was        *)
(*                   pressed in, addingRepo and dirty before it and        *)
(*                   whether it changed what the model holds, until the    *)
(*                   next message is handled                               *)
(* The cursor stays on the first item of a section: no cursor key is among *)
(* the keys pressed.                                                       *)
(***************************************************************************)
VARIABLES configView, configDisk, lastConfigKey

configKeysVars == <<configView, configDisk, lastConfigKey>>

NoConfigData == [written |-> FALSE, Registries |-> <<>>, Repos |-> <<>>,
                 Providers |-> <<>>]

NoConfigView ==
    [section |-> 0, registries |-> <<>>, repos |-> <<>>, providers |-> <<>>,
     dirty |-> FALSE, addingRepo |-> FALSE, textInput |-> <<>>, saves |-> {}]

NoConfigKey ==
    [key |-> "", from |-> "", adding |-> FALSE, dirty |-> FALSE,
     changed |-> FALSE]

ConfigKeysIdle ==
    /\ configView = NoConfigView
    /\ configDisk = NoConfigData
    /\ lastConfigKey = NoConfigKey

(***************************************************************************)
(* The commands of the manage view, which run beside Update.               *)
(*   manageCmds : the commands that were returned and have not ended: the  *)
(*                load of manageModel.Init() and the apply of Enter, with  *)
(*                the provider it was made for, the list shown at Enter    *)
(*                (shown), the index it has reached (i), and whether its   *)
(*                slice still is the view's slice (shared) or else what    *)
(*                the slice holds (arr)                                    *)
(*   lastManage : history: listFor, the provider the view's list was       *)
(*                loaded for, and of the last iteration of an apply the    *)
(*                provider, the item as it was shown at Enter, the item    *)
(*                as it was read and the system calls made for it          *)
(***************************************************************************)
VARIABLES manageCmds, lastManage

asyncVars == <<manageCmds, lastManage>>

NoLastManage ==
    [listFor |-> "", op |-> "none", prov |-> "", shown |-> <<>>,
     read |-> <<>>, calls |-> {}]

AsyncIdle == manageCmds = {} /\ lastManage = NoLastManage

(***************************************************************************)
(* The cursor of the manage view.                                          *)
(*   cursor  : of the manageModel, the length of displayList (len),        *)
(*             selectedIdx, and paginator.Page and paginator.TotalPages    *)
(*   lastNav : history: the last key pressed, until the next message       *)
(***************************************************************************)
VARIABLES cursor, lastNav

cursorVars == <<cursor, lastNav>>

NoCursor == [len |-> 0, selectedIdx |-> 0, Page |-> 0, TotalPages |-> 0]

CursorIdle == cursor = NoCursor /\ lastNav = ""

(***************************************************************************)
(* The status view and the loads of its providers.                         *)
(*   statusView : of the statusModel, loading, whether err is set and      *)
(*                whether providers were loaded; quit (tea.Quit was        *)
(*                returned); cmds, the commands that were returned and     *)
(*                whose message was not handled yet; and keys, the number  *)
(*                of keys that are still pressed                           *)
(***************************************************************************)
VARIABLES statusView

statusVars == <<statusView>>

NoStatusView ==
    [loading |-> FALSE, err |-> FALSE, loaded |-> FALSE, quit |-> FALSE,
     cmds |-> {}, keys |-> 0]

StatusIdle == statusView = NoStatusView

\* The variables of the later topics, and their state at rest.
lateVars == <<configKeysVars, asyncVars, cursorVars, statusVars>>

LateIdle == ConfigKeysIdle /\ AsyncIdle /\ CursorIdle /\ StatusIdle

\* The variables of the topics above, and their state at rest.
moreVars == <<pkgVars, groupVars, searchVars, tuiVars, lateVars>>

MoreIdle == PkgIdle /\ GroupIdle /\ SearchIdle /\ TuiIdle /\ LateIdle

\* The variables of the link engine and its views.
engineVars == <<store, provDir, envCount, view, manageModel, seen, last>>

\* What the link engine and its views leave alone.
auxVars == <<lockVars, listVars, probeVars, cfgVars, moreVars>>

vars == <<engineVars, auxVars>>

AuxIdle == LockIdle /\ ListIdle /\ ProbeIdle /\ CfgIdle /\ MoreIdle

NoDir == [exists |-> FALSE, ent |-> <<>>]

NoProvider == [Name |-> "", Configured |-> FALSE]

NoLast ==
    [op |-> "none", prov |-> NoProvider, name |-> "", pre |-> NoDir,
     preStore |-> <<>>, skills |-> <<>>, fail |-> {}, log |-> <<>>,
     post |-> NoDir, out |-> <<>>, err |-> FALSE, report |-> <<>>,
     seen |-> [dir |-> NoDir, store |-> <<>>]]

\* detectProviders, for one provider: Configured is whether the directory exists.
detectProvider(p) == [Name |-> p, Configured |-> provDir[p].exists]

\* An order by name alone, which the code does not use.
SkillLessByName(a, b) == StrLess(a.Name, b.Name)

\* The less function handed to sort.Slice: by group, then by name.
SkillLess(a, b) ==
    IF a.Group # b.Group THEN StrLess(a.Group, b.Group)
    ELSE StrLess(a.Name, b.Name)

\* An insertion that compares nothing, which sort.Slice does not do.
InsertSkillFirst(x, s) == <<x>> \o s

RECURSIVE InsertSkill(_, _)
InsertSkill(x, s) ==
    IF s = <<>> THEN <<x>>
    ELSE IF SkillLess(x, Head(s)) THEN <<x>> \o s
    ELSE <<Head(s)>> \o InsertSkill(x, Tail(s))

\* sort.Slice(skills, less): the names are distinct, so the order is total.
RECURSIVE SortSkills(_)
SortSkills(s) ==
    IF s = <<>> THEN <<>> ELSE InsertSkill(Head(s), SortSkills(Tail(s)))

\* linkedSkills: every entry of the provider directory, whatever it is.
linkedSkills(provider, dir) ==
    IF provider.Configured THEN Range(ReadDirProvider(dir)) \ {".DS_Store"}
    ELSE {}

\* loadSkillsForProvider(provider), reading central store st and provider
\* directory dir.
loadSkillsForProvider(provider, st, dir) ==
    LET linked == linkedSkills(provider, dir)
        dirs   == SelectSeq(ReadDir(st),
                            LAMBDA n : st[n] = "dir" /\ n # ".DS_Store")
    IN  SortSkills([i \in 1..Len(dirs) |->
            [Name     |-> dirs[i],
             Group    |-> extractGroup(dirs[i]),
             Linked   |-> dirs[i] \in linked,
             Selected |-> dirs[i] \in linked]])

(***************************************************************************)
(* System calls on a provider directory.  A call on a name of fail ends    *)
(* with an error of the environment (EACCES, EIO, ...).                    *)
(***************************************************************************)
\* os.MkdirAll(path, 0755)
MkdirAll(dir) == [dir EXCEPT !.exists = TRUE]

\* os.Symlink(relPath, linkPath): EEXIST when the name is taken.
Symlink(dir, n, fail) ==
    IF dir.exists /\ dir.ent[n] = "none" /\ n \notin fail
    THEN [dir |-> [dir EXCEPT !.ent[n] = "managed"], ok |-> TRUE]
    ELSE [dir |-> dir, ok |-> FALSE]

\* os.Remove(path): unlinks a file or a symbolic link, removes an empty
\* directory, and fails on a non-empty directory and on a missing name.
Remove(dir, n, fail) ==
    IF dir.exists /\ dir.ent[n] \in {"file", "emptydir", "managed", "symlink"}
       /\ n \notin fail
    THEN [dir |-> [dir EXCEPT !.ent[n] = "none"], ok |-> TRUE]
    ELSE [dir |-> dir, ok |-> FALSE]

\* What the loop of applySkillChanges decides for one SkillEntry, from its
\* Selected and Linked flags alone.
planAction(skill) ==
    IF skill.Selected /\ ~skill.Linked THEN "CreateLink"
    ELSE IF ~skill.Selected /\ skill.Linked THEN "RemoveLink"
    ELSE "NoOp"

\* One iteration of the loop of applySkillChanges.
ApplyItem(skill, dir, fail) ==
    CASE planAction(skill) = "CreateLink" ->
           LET r == Symlink(dir, skill.Name, fail)
           IN  [dir |-> r.dir,
                log |-> <<[name |-> skill.Name, op |-> "symlink", ok |-> r.ok]>>]
      [] planAction(skill) = "RemoveLink" ->
           LET r == Remove(dir, skill.Name, fail)
           IN  [dir |-> r.dir,
                log |-> <<[name |-> skill.Name, op |-> "remove", ok |-> r.ok]>>]
      [] OTHER -> [dir |-> dir, log |-> <<>>]

\* A loop that returns at the first system call that fails, which the code
\* does not do.
RECURSIVE ApplyLoopAborting(_, _, _)
ApplyLoopAborting(skills, dir, fail) ==
    IF skills = <<>> THEN [dir |-> dir, log |-> <<>>]
    ELSE LET s == ApplyItem(Head(skills), dir, fail)
         IN  IF s.log # <<>> /\ ~s.log[1].ok
             THEN s
             ELSE LET r == ApplyLoopAborting(Tail(skills), s.dir, fail)
                  IN  [dir |-> r.dir, log |-> s.log \o r.log]

\* The loop of applySkillChanges: errors are dropped and the loop goes on.
RECURSIVE ApplyLoop(_, _, _)
ApplyLoop(skills, dir, fail) ==
    IF skills = <<>> THEN [dir |-> dir, log |-> <<>>]
    ELSE LET s == ApplyItem(Head(skills), dir, fail)
             r == ApplyLoop(Tail(skills), s.dir, fail)
         IN  [dir |-> r.dir, log |-> s.log \o r.log]

\* applySkillChanges(provider, skills) on directory dir: the directory it
\* leaves and the system calls it made, in order.  It returns nothing.
applySkillChanges(provider, skills, dir, fail) ==
    ApplyLoop(skills, IF ~provider.Configured THEN MkdirAll(dir) ELSE dir, fail)

(***************************************************************************)
(* Initial states: a central store holding every skill of U, and for each  *)
(* provider of P a directory that is missing, or that exists and holds at  *)
(* most one entry.  Everything else is put there by the engine or by       *)
(* another program; the store's own link operations are exercised on every *)
(* kind of entry under SpecStore.                                          *)
(***************************************************************************)
\* What another program leaves under a skill's name in a provider directory.
ForeignKind == {"file", "dir"}

InitialDirs(U) ==
    {[exists |-> e, ent |-> [n \in U |-> "none"]] : e \in BOOLEAN}
    \cup {[exists |-> TRUE, ent |-> [n \in U |-> IF n = m THEN k ELSE "none"]] :
             m \in U, k \in ForeignKind}

InitOver(U, P) ==
    /\ store = [n \in U |-> "dir"]
    /\ provDir \in [P -> InitialDirs(U)]
    /\ envCount = 0
    /\ view = "status"
    /\ manageModel = [provider |-> NoProvider, skills |-> <<>>]
    /\ seen = [dir |-> NoDir, store |-> <<>>]
    /\ last = NoLast
    /\ AuxIdle

Init == InitOver(ScenarioNames, {"claude"})

InitMixed == InitOver(MixedNames, {"claude"})

(***************************************************************************)
(* Other programs (the installer, the user's shell, the provider's tool).  *)
(***************************************************************************)
EnvWriteEntry(p, n, k) ==
    /\ envCount < MaxEnv
    /\ provDir[p].exists
    /\ provDir[p].ent[n] # k
    /\ provDir' = [provDir EXCEPT ![p].ent[n] = k]
    /\ envCount' = envCount + 1
    /\ UNCHANGED <<store, view, manageModel, seen, last>>
    /\ UNCHANGED auxVars

EnvWriteStore(n, k) ==
    /\ envCount < MaxEnv
    /\ store[n] # k
    /\ store' = [store EXCEPT ![n] = k]
    /\ envCount' = envCount + 1
    /\ UNCHANGED <<provDir, view, manageModel, seen, last>>
    /\ UNCHANGED auxVars

EnvRemoveProviderDir(p) ==
    /\ envCount < MaxEnv
    /\ provDir[p].exists
    /\ provDir' = [provDir EXCEPT
                     ![p] = [exists |-> FALSE, ent |-> [n \in Names |-> "none"]]]
    /\ envCount' = envCount + 1
    /\ UNCHANGED <<store, view, manageModel, seen, last>>
    /\ UNCHANGED auxVars

(***************************************************************************)
(* The status view opens the manage view of provider p: openManageMsg,     *)
(* newManageModel, manageModel.Init and the skillsLoadedMsg it sends.      *)
(***************************************************************************)
OpenManage(p) ==
    /\ view = "status"
    /\ LET provider == detectProvider(p)
           skills   == loadSkillsForProvider(provider, store, provDir[p])
       IN  /\ manageModel' = [provider |-> provider, skills |-> skills]
           /\ seen' = [dir |-> provDir[p], store |-> store]
           /\ last' = [NoLast EXCEPT !.op = "load", !.prov = provider,
                                     !.pre = provDir[p], !.preStore = store,
                                     !.post = provDir[p], !.out = skills]
    /\ view' = "manage"
    /\ UNCHANGED fsVars
    /\ UNCHANGED auxVars

\* Space on the skill at index i of the list.
KeySpace(i) ==
    /\ view = "manage"
    /\ i \in 1..Len(manageModel.skills)
    /\ manageModel' = [manageModel EXCEPT
                         !.skills[i].Selected = ~manageModel.skills[i].Selected]
    /\ last' = NoLast
    /\ UNCHANGED <<fsVars, view, seen>>
    /\ UNCHANGED auxVars

\* "a": select all.
KeyA ==
    /\ view = "manage"
    /\ manageModel' = [manageModel EXCEPT
          !.skills = [i \in 1..Len(manageModel.skills) |->
                        [manageModel.skills[i] EXCEPT !.Selected = TRUE]]]
    /\ last' = NoLast
    /\ UNCHANGED <<fsVars, view, seen>>
    /\ UNCHANGED auxVars

\* "n": select none.
KeyN ==
    /\ view = "manage"
    /\ manageModel' = [manageModel EXCEPT
          !.skills = [i \in 1..Len(manageModel.skills) |->
                        [manageModel.skills[i] EXCEPT !.Selected = FALSE]]]
    /\ last' = NoLast
    /\ UNCHANGED <<fsVars, view, seen>>
    /\ UNCHANGED auxVars

\* The names of the items for which applySkillChanges makes a system call.
Planned(skills) ==
    {skills[i].Name : i \in {j \in 1..Len(skills) :
                                planAction(skills[j]) # "NoOp"}}

\* What an apply tells its caller about its items: applySkillChanges has
\* no result and drops every error, and the command answers with the
\* reloaded list alone.
applyReport(log) == <<>>

\* A command that reads the list it answers with before it applies, which
\* the code does not do.
applyCmdReadingFirst(provider, skills, st, dir, fail) ==
    LET r == applySkillChanges(provider, skills, dir, fail)
    IN  [dir |-> r.dir, log |-> r.log,
         skills |-> loadSkillsForProvider(provider, st, dir)]

\* The command Enter returns: applySkillChanges(m.provider, m.skills), and
\* when it has returned, loadSkillsForProvider(m.provider) for the message.
applyCmd(provider, skills, st, dir, fail) ==
    LET r == applySkillChanges(provider, skills, dir, fail)
    IN  [dir |-> r.dir, log |-> r.log,
         skills |-> loadSkillsForProvider(provider, st, r.dir)]

\* Enter: the command applySkillChanges(m.provider, m.skills) followed by
\* loadSkillsForProvider(m.provider), and the skillsLoadedMsg it sends.
KeyEnter(fail) ==
    /\ view = "manage"
    /\ fail \subseteq Planned(manageModel.skills)
    /\ LET provider == manageModel.provider
           p        == provider.Name
       IN  \E r \in {applyCmd(provider, manageModel.skills, store,
                              provDir[p], fail)} :
             /\ provDir' = [provDir EXCEPT ![p] = r.dir]
             /\ manageModel' = [manageModel EXCEPT !.skills = r.skills]
             /\ seen' = [dir |-> r.dir, store |-> store]
             /\ last' = [NoLast EXCEPT !.op = "apply", !.prov = provider,
                                       !.pre = provDir[p], !.preStore = store,
                                       !.skills = manageModel.skills,
                                       !.seen = seen,
                                       !.fail = fail, !.log = r.log,
                                       !.report = applyReport(r.log),
                                       !.post = r.dir, !.out = r.skills]
    /\ UNCHANGED <<store, envCount, view>>
    /\ UNCHANGED auxVars

\* The environment makes the system call of at most one item of an apply fail.
FailSets == {{}} \cup {{n} : n \in Names}

Next ==
    \/ \E p \in Providers, n \in Names, k \in ForeignKind \cup {"none", "managed"} :
          EnvWriteEntry(p, n, k)
    \/ \E n \in Names, k \in {"none", "dir"} : EnvWriteStore(n, k)
    \/ \E p \in Providers : EnvRemoveProviderDir(p)
    \/ \E p \in Providers : OpenManage(p)
    \/ \E i \in 1..Len(manageModel.skills) : KeySpace(i)
    \/ KeyA
    \/ KeyN
    \/ \E fail \in FailSets : KeyEnter(fail)

Spec == Init /\ [][Next]_vars

SpecMixed == InitMixed /\ [][Next]_vars

(***************************************************************************)
(* The skill store's link operations, called with any skill name on any    *)
(* provider directory.                                                     *)
(***************************************************************************)
\* Store.LinkToProvider(skillName, providerPath): the directory it leaves
\* and whether it returns an error.
LinkToProvider(n, dir) ==
    LET made    == MkdirAll(dir)
        removed == Remove(made, n, {})
        linked  == Symlink(removed.dir, n, {})
    IN  [dir |-> linked.dir, err |-> ~linked.ok]

\* Store.UnlinkFromProvider(skillName, providerPath)
UnlinkFromProvider(n, dir) ==
    LET removed == Remove(dir, n, {})
    IN  [dir |-> removed.dir, err |-> ~removed.ok]

CallLinkToProvider(n, p) ==
    /\ LET r == LinkToProvider(n, provDir[p])
       IN  /\ provDir' = [provDir EXCEPT ![p] = r.dir]
           /\ last' = [NoLast EXCEPT !.op = "link", !.name = n,
                                     !.pre = provDir[p], !.preStore = store,
                                     !.post = r.dir, !.err = r.err]
    /\ UNCHANGED <<store, envCount, view, manageModel, seen>>
    /\ UNCHANGED auxVars

CallUnlinkFromProvider(n, p) ==
    /\ LET r == UnlinkFromProvider(n, provDir[p])
       IN  /\ provDir' = [provDir EXCEPT ![p] = r.dir]
           /\ last' = [NoLast EXCEPT !.op = "unlink", !.name = n,
                                     !.pre = provDir[p], !.preStore = store,
                                     !.post = r.dir, !.err = r.err]
    /\ UNCHANGED <<store, envCount, view, manageModel, seen>>
    /\ UNCHANGED auxVars

\* Any provider directory without a dangling link into the store.
StoreDirs(st) ==
    {[exists |-> FALSE, ent |-> [n \in DOMAIN st |-> "none"]]}
    \cup {[exists |-> TRUE, ent |-> e] :
            e \in {f \in [DOMAIN st -> EntryKind] :
                     \A n \in DOMAIN st : f[n] = "managed" => st[n] = "dir"}}

InitStore ==
    /\ store \in [ScenarioNames -> {"none", "dir"}]
    /\ provDir \in [{"claude"} -> StoreDirs(store)]
    /\ envCount = 0
    /\ view = "status"
    /\ manageModel = [provider |-> NoProvider, skills |-> <<>>]
    /\ seen = [dir |-> NoDir, store |-> <<>>]
    /\ last = NoLast
    /\ AuxIdle

NextStore ==
    \/ \E n \in Names, p \in Providers : CallLinkToProvider(n, p)
    \/ \E n \in Names, p \in Providers : CallUnlinkFromProvider(n, p)

SpecStore == InitStore /\ [][NextStore]_vars

\* The link engine at rest, in the behaviours that do not touch it.
EngineIdle ==
    /\ store = <<>>
    /\ provDir = <<>>
    /\ envCount = 0
    /\ view = "status"
    /\ manageModel = [provider |-> NoProvider, skills |-> <<>>]
    /\ seen = [dir |-> NoDir, store |-> <<>>]
    /\ last = NoLast

(***************************************************************************)
(* The lock ledger (Store.ReadLockFile, WriteLockFile, AddToLock).  A      *)
(* document on disk is a JSON object: version (0 when the key is absent),  *)
(* skills (null: the key is absent or null), and unknown: whether it holds *)
(* a key that LockFile does not declare.  An entry holds the fields of     *)
(* LockEntry that the ledger reads or writes, and unknown likewise.        *)
(***************************************************************************)
LockNames == {"auth-jwt", "vue-testing"}

Sources == {"acme/skills", "other/repo"}

LockVersions == {3, 4}

\* Number of seconds the clock advances in one behaviour.
MaxNow == 2

\* The entries another version of the tool, or npx skills, may have written.
DiskEntries ==
    [Source : Sources, SkillFolderHash : {"", "h"}, InstalledAt : {0},
     UpdatedAt : {0}, unknown : BOOLEAN]

DiskDocs ==
    {[kind |-> "doc", version |-> v, null |-> TRUE, skills |-> <<>>,
      unknown |-> FALSE] : v \in LockVersions}
    \cup {[kind |-> "doc", version |-> v, null |-> FALSE, skills |-> <<>>,
           unknown |-> u] : v \in LockVersions, u \in BOOLEAN}
    \cup {[kind |-> "doc", version |-> v, null |-> FALSE,
           skills |-> [n \in {m} |-> e], unknown |-> u] :
             v \in LockVersions, u \in BOOLEAN, m \in LockNames,
             e \in DiskEntries}

\* json.Unmarshal into a LockEntry: keys the struct does not declare are
\* dropped.
UnmarshalEntry(e) == [e EXCEPT !.unknown = FALSE]

\* A load that fails when there is no file, which the code does not do.
ReadLockFileStrict(file) ==
    IF file.kind \in {"missing", "invalid"}
    THEN [err |-> TRUE, lock |-> NoLock]
    ELSE [err |-> FALSE,
          lock |-> [Version |-> file.version, nil |-> file.null,
                    Skills |-> [n \in DOMAIN file.skills |->
                                  UnmarshalEntry(file.skills[n])]]]

\* Store.ReadLockFile(): the LockFile it returns, or an error.
ReadLockFile(file) ==
    IF file.kind = "missing"
    THEN [err |-> FALSE, lock |-> [Version |-> 3, nil |-> FALSE, Skills |-> <<>>]]
    ELSE IF file.kind = "invalid"
    THEN [err |-> TRUE, lock |-> NoLock]
    ELSE [err |-> FALSE,
          lock |-> [Version |-> file.version, nil |-> file.null,
                    Skills |-> [n \in DOMAIN file.skills |->
                                  UnmarshalEntry(file.skills[n])]]]

\* Store.WriteLockFile(lock): json.MarshalIndent of the LockFile, written
\* over the file.
WriteLockFile(lock) ==
    [kind |-> "doc", version |-> lock.Version, null |-> lock.nil,
     skills |-> lock.Skills, unknown |-> FALSE]

\* The LockEntry AddToLock builds at time t.
NewLockEntry(source, t) ==
    [Source |-> source, SkillFolderHash |-> "", InstalledAt |-> t,
     UpdatedAt |-> t, unknown |-> FALSE]

\* Store.AddToLock(skillName, source) at time t: the file it leaves, the
\* LockFile it loaded, and how it ends.  Assigning into the nil map of a
\* document without skills panics.
AddToLock(file, skillName, source, t) ==
    LET r == ReadLockFile(file)
    IN  IF r.err THEN [file |-> file, loaded |-> r.lock, res |-> "error"]
        ELSE IF r.lock.nil
        THEN [file |-> file, loaded |-> r.lock, res |-> "panic"]
        ELSE [file |-> WriteLockFile(
                  [r.lock EXCEPT !.Skills =
                      [n \in DOMAIN r.lock.Skills \cup {skillName} |->
                          IF n = skillName THEN NewLockEntry(source, t)
                          ELSE r.lock.Skills[n]]]),
              loaded |-> r.lock, res |-> "ok"]

InitLock ==
    /\ EngineIdle /\ ListIdle /\ ProbeIdle /\ CfgIdle /\ MoreIdle
    /\ lockFile \in {NoLockFile, [NoLockFile EXCEPT !.kind = "invalid"]}
                      \cup DiskDocs
    /\ now = 1
    /\ lastLock = NoLastLock

\* What the ledger operations leave alone.
lockOthers == <<engineVars, listVars, probeVars, cfgVars, moreVars>>

\* A second passes.
Tick ==
    /\ now < MaxNow
    /\ now' = now + 1
    /\ UNCHANGED <<lockOthers, lockFile, lastLock>>

CallReadLockFile ==
    /\ LET r == ReadLockFile(lockFile)
       IN  lastLock' = [NoLastLock EXCEPT
                          !.op = "load", !.now = now, !.pre = lockFile,
                          !.loaded = r.lock, !.post = lockFile,
                          !.res = IF r.err THEN "error" ELSE "ok"]
    /\ UNCHANGED <<lockOthers, lockFile, now>>

CallAddToLock(skillName, source) ==
    /\ LET r == AddToLock(lockFile, skillName, source, now)
       IN  /\ lockFile' = r.file
           /\ lastLock' = [NoLastLock EXCEPT
                             !.op = "add", !.name = skillName,
                             !.source = source, !.now = now,
                             !.pre = lockFile, !.loaded = r.loaded,
                             !.post = r.file, !.res = r.res]
    /\ UNCHANGED <<lockOthers, now>>

\* WriteLockFile(ReadLockFile()): persisting what was just loaded.
CallPersistLoaded ==
    /\ LET r == ReadLockFile(lockFile)
           f == IF r.err THEN lockFile ELSE WriteLockFile(r.lock)
       IN  /\ lockFile' = f
           /\ lastLock' = [NoLastLock EXCEPT
                             !.op = "persist", !.now = now, !.pre = lockFile,
                             !.loaded = r.lock, !.post = f,
                             !.res = IF r.err THEN "error" ELSE "ok"]
    /\ UNCHANGED <<lockOthers, now>>

NextLock ==
    \/ Tick
    \/ CallReadLockFile
    \/ \E n \in LockNames, src \in Sources : CallAddToLock(n, src)
    \/ CallPersistLoaded

SpecLock == InitLock /\ [][NextLock]_vars

(***************************************************************************)
(* Listing the central store: Store.ListInstalled, RunList, loadProviders  *)
(* and the manage view's load, on a store directory in state state with    *)
(* entries st.                                                             *)
(***************************************************************************)
ListNames == {"auth-jwt", "vue-testing", ".DS_Store"}

\* os.ReadDir(skillsDir): every entry, or an error.
ReadDirStore(state, st) ==
    IF state = "ok" THEN [err |-> FALSE, entries |-> ReadDir(st)]
    ELSE [err |-> TRUE, entries |-> <<>>]

\* The entries for which e.IsDir() holds.
IsDirEntries(entries, st) == SelectSeq(entries, LAMBDA n : st[n] = "dir")

\* Store.ListInstalled(): the names of the subdirectories, or the error of
\* os.ReadDir.
ListInstalled(state, st) ==
    LET r == ReadDirStore(state, st)
    IN  [err |-> r.err, skills |-> IsDirEntries(r.entries, st)]

\* RunList(): the total it prints is the number of entries; the names it
\* prints are the subdirectories.
RunList(state, st) ==
    LET r == ReadDirStore(state, st)
    IN  [err |-> r.err,
         total |-> Len(r.entries),
         printed |-> IsDirEntries(r.entries, st)]

\* loadProviders(): totalSkills, 0 when os.ReadDir fails.
loadProvidersTotal(state, st) ==
    LET r == ReadDirStore(state, st)
    IN  IF r.err THEN 0 ELSE Len(IsDirEntries(r.entries, st))

\* loadSkillsForProvider(provider) on a store directory in state state: an
\* error of os.ReadDir returns the empty list.
loadSkillsForProviderFrom(state, provider, st, dir) ==
    IF ReadDirStore(state, st).err THEN <<>>
    ELSE loadSkillsForProvider(provider, st, dir)

\* Store contents: .DS_Store is the file macOS leaves in a directory.
ListStores ==
    {st \in [ListNames -> {"none", "dir", "file"}] :
        st[".DS_Store"] \in {"none", "file"}}

InitList ==
    /\ storeState \in {"ok", "missing", "unreadable"}
    /\ store \in ListStores
    /\ storeState = "missing" => \A n \in ListNames : store[n] = "none"
    /\ provDir = [p \in {"claude"} |->
                    [exists |-> TRUE, ent |-> [n \in ListNames |-> "none"]]]
    /\ envCount = 0
    /\ view = "status"
    /\ manageModel = [provider |-> NoProvider, skills |-> <<>>]
    /\ seen = [dir |-> NoDir, store |-> <<>>]
    /\ last = NoLast
    /\ lastList = NoLastList
    /\ LockIdle /\ ProbeIdle /\ CfgIdle /\ MoreIdle

\* What the listings leave alone.
listOthers == <<engineVars, lockVars, probeVars, cfgVars, moreVars, storeState>>

CallListInstalled ==
    /\ LET r == ListInstalled(storeState, store)
       IN  lastList' = [op |-> "ListInstalled", state |-> storeState,
                        store |-> store, skills |-> Range(r.skills),
                        total |-> Len(r.skills), err |-> r.err]
    /\ UNCHANGED listOthers

CallRunList ==
    /\ LET r == RunList(storeState, store)
       IN  lastList' = [op |-> "RunList", state |-> storeState,
                        store |-> store, skills |-> Range(r.printed),
                        total |-> r.total, err |-> r.err]
    /\ UNCHANGED listOthers

CallLoadProviders ==
    /\ lastList' = [op |-> "loadProviders", state |-> storeState,
                    store |-> store, skills |-> {},
                    total |-> loadProvidersTotal(storeState, store),
                    err |-> FALSE]
    /\ UNCHANGED listOthers

CallLoadSkills(p) ==
    /\ LET skills == loadSkillsForProviderFrom(storeState, detectProvider(p),
                                               store, provDir[p])
       IN  lastList' = [op |-> "loadSkillsForProvider", state |-> storeState,
                        store |-> store,
                        skills |-> {skills[i].Name : i \in 1..Len(skills)},
                        total |-> Len(skills), err |-> FALSE]
    /\ UNCHANGED listOthers

NextList ==
    \/ CallListInstalled
    \/ CallRunList
    \/ CallLoadProviders
    \/ \E p \in Providers : CallLoadSkills(p)

SpecList == InitList /\ [][NextList]_vars

(***************************************************************************)
(* Probing the providers: the loop of detectProviders (and of              *)
(* provider.DetectAll, which is the same loop) over the registry.  For     *)
(* each provider it calls os.Stat and then, when that found a directory,   *)
(* os.ReadDir; other programs run in between.                              *)
(***************************************************************************)
\* providerDefs, cut to its first two providers.
KnownProviders == <<"claude", "cursor">>

\* The probe goes on to the provider after i.
ProbeAdvance(pr, result, lost) ==
    [pc   |-> IF pr.i = Len(KnownProviders) THEN "done" ELSE "stat",
     i    |-> IF pr.i = Len(KnownProviders) THEN pr.i ELSE pr.i + 1,
     out  |-> Append(pr.out, result),
     lost |-> pr.lost \cup lost]

\* os.Stat(pd.path) for the provider at hand: a missing directory is
\* appended as not configured.
probeStat(pr, dir) ==
    IF dir.exists THEN [pr EXCEPT !.pc = "readdir"]
    ELSE ProbeAdvance(pr, [Name |-> KnownProviders[pr.i], Configured |-> FALSE,
                           SkillCount |-> 0], {})

\* A loop that returns at the first os.ReadDir that fails, which the code
\* does not do.
probeReadDirAborting(pr, dir, fail) ==
    IF dir.exists /\ ~fail
    THEN ProbeAdvance(pr, [Name |-> KnownProviders[pr.i], Configured |-> TRUE,
                           SkillCount |->
                              Len(SelectSeq(ReadDirProvider(dir),
                                            LAMBDA n : n # ".DS_Store"))], {})
    ELSE [pr EXCEPT !.pc = "done", !.lost = @ \cup {KnownProviders[pr.i]}]

\* os.ReadDir(pd.path) after os.Stat found a directory: when it fails (the
\* directory is gone, or cannot be read) the count stays 0.
probeReadDir(pr, dir, fail) ==
    IF dir.exists /\ ~fail
    THEN ProbeAdvance(pr, [Name |-> KnownProviders[pr.i], Configured |-> TRUE,
                           SkillCount |->
                              Len(SelectSeq(ReadDirProvider(dir),
                                            LAMBDA n : n # ".DS_Store"))], {})
    ELSE ProbeAdvance(pr, [Name |-> KnownProviders[pr.i], Configured |-> TRUE,
                           SkillCount |-> 0], {KnownProviders[pr.i]})

InitProbe ==
    /\ store = [n \in ScenarioNames |-> "dir"]
    /\ provDir \in [Range(KnownProviders) -> InitialDirs(ScenarioNames)]
    /\ envCount = 0
    /\ view = "status"
    /\ manageModel = [provider |-> NoProvider, skills |-> <<>>]
    /\ seen = [dir |-> NoDir, store |-> <<>>]
    /\ last = NoLast
    /\ probe = NoProbe
    /\ LockIdle /\ ListIdle /\ CfgIdle /\ MoreIdle

\* What a probe leaves alone.
probeOthers == <<engineVars, lockVars, listVars, cfgVars, moreVars>>

\* detectProviders() is called.
ProbeStart ==
    /\ probe.pc \in {"idle", "done"}
    /\ probe' = [pc |-> "stat", i |-> 1, out |-> <<>>, lost |-> {}]
    /\ UNCHANGED probeOthers

ProbeStat ==
    /\ probe.pc = "stat"
    /\ probe' = probeStat(probe, provDir[KnownProviders[probe.i]])
    /\ UNCHANGED probeOthers

ProbeReadDir(fail) ==
    /\ probe.pc = "readdir"
    /\ probe' = probeReadDir(probe, provDir[KnownProviders[probe.i]], fail)
    /\ UNCHANGED probeOthers

NextProbe ==
    \/ ProbeStart
    \/ ProbeStat
    \/ \E fail \in BOOLEAN : ProbeReadDir(fail)
    \/ \E p \in Providers : EnvRemoveProviderDir(p)

SpecProbe == InitProbe /\ [][NextProbe]_vars

(***************************************************************************)
(* The status view and the config view of the providers.                   *)
(***************************************************************************)
\* detectProviders(), run without another program in between: Name and
\* Configured of each provider of the registry.
detectProviders(dirs) ==
    [i \in 1..Len(KnownProviders) |->
        [Name |-> KnownProviders[i],
         Configured |-> dirs[KnownProviders[i]].exists]]

\* configModel.toggleItem() in the providers section, on the provider at
\* index i: the providers and the directories it leaves.
toggleItem(providers, dirs, i) ==
    IF providers[i].Configured
    THEN [providers |-> [providers EXCEPT ![i].Configured = FALSE],
          dirs |-> dirs]
    ELSE [providers |-> [providers EXCEPT ![i].Configured = TRUE],
          dirs |-> [dirs EXCEPT ![providers[i].Name] = MkdirAll(@)]]

\* configModel.saveConfig(): the enabled_providers it writes.
saveConfig(providers) ==
    [saved |-> TRUE,
     enabled_providers |->
        LET on == SelectSeq(providers, LAMBDA q : q.Configured)
        IN  [i \in 1..Len(on) |-> on[i].Name]]

InitConfig ==
    /\ store = [n \in ScenarioNames |-> "dir"]
    /\ provDir \in [Range(KnownProviders) ->
                      {[exists |-> e, ent |-> [n \in ScenarioNames |-> "none"]] :
                          e \in BOOLEAN}]
    /\ envCount = 0
    /\ view = "status"
    /\ manageModel = [provider |-> NoProvider, skills |-> <<>>]
    /\ seen = [dir |-> NoDir, store |-> <<>>]
    /\ last = NoLast
    /\ statusModel = [providers |-> detectProviders(provDir)]
    /\ configModel = [providers |-> <<>>, dirty |-> FALSE]
    /\ configFile = NoConfigFile
    /\ LockIdle /\ ListIdle /\ ProbeIdle /\ MoreIdle

\* What the two views leave alone.
cfgOthers ==
    <<store, envCount, manageModel, seen, last, lockVars, listVars, probeVars,
      moreVars>>

\* "r" in the status view: loadProviders and the providersLoadedMsg.
StatusRefresh ==
    /\ view = "status"
    /\ statusModel' = [statusModel EXCEPT !.providers = detectProviders(provDir)]
    /\ UNCHANGED <<cfgOthers, provDir, view, configModel, configFile>>

\* "c" in the status view: openConfigMsg and newConfigModel.
StatusKeyC ==
    /\ view = "status"
    /\ Len(statusModel.providers) > 0
    /\ view' = "config"
    /\ configModel' = [providers |-> detectProviders(provDir), dirty |-> FALSE]
    /\ UNCHANGED <<cfgOthers, provDir, statusModel, configFile>>

\* Space in the providers section of the config view, on provider i.
ConfigKeySpace(i) ==
    /\ view = "config"
    /\ i \in 1..Len(configModel.providers)
    /\ LET r == toggleItem(configModel.providers, provDir, i)
       IN  /\ configModel' = [providers |-> r.providers, dirty |-> TRUE]
           /\ provDir' = r.dirs
    /\ UNCHANGED <<cfgOthers, view, statusModel, configFile>>

\* "s" in the config view: saveConfig and the configSavedMsg.
ConfigKeyS ==
    /\ view = "config"
    /\ configFile' = saveConfig(configModel.providers)
    /\ configModel' = [configModel EXCEPT !.dirty = FALSE]
    /\ UNCHANGED <<cfgOthers, provDir, view, statusModel>>

\* Esc in the config view: back to the status view, which loads again.
ConfigKeyEsc ==
    /\ view = "config"
    /\ view' = "status"
    /\ statusModel' = [statusModel EXCEPT !.providers = detectProviders(provDir)]
    /\ UNCHANGED <<cfgOthers, provDir, configModel, configFile>>

NextConfig ==
    \/ StatusRefresh
    \/ StatusKeyC
    \/ \E i \in 1..Len(KnownProviders) : ConfigKeySpace(i)
    \/ ConfigKeyS
    \/ ConfigKeyEsc
    \/ \E p \in Providers : EnvRemoveProviderDir(p)

SpecConfig == InitConfig /\ [][NextConfig]_vars

(***************************************************************************)
(* The provider package: a caller gets a *Provider and configures it.      *)
(***************************************************************************)
\* provider.Get(name), for a name of the registry whose directory is dir.
Get(name, dir) ==
    [Name       |-> name,
     Configured |-> dir.exists,
     SkillCount |-> IF dir.exists
                    THEN Len(SelectSeq(ReadDirProvider(dir),
                                       LAMBDA n : n # ".DS_Store"))
                    ELSE 0]

\* A Configure that marks the provider whatever os.MkdirAll answers, which
\* the code does not do.
ConfigureMarking(p, dir, fail) ==
    IF ~dir.exists /\ fail
    THEN [p |-> [p EXCEPT !.Configured = TRUE], dir |-> dir, err |-> TRUE]
    ELSE [p |-> [p EXCEPT !.Configured = TRUE], dir |-> MkdirAll(dir),
          err |-> FALSE]

\* (p *Provider) Configure() on directory dir.  os.MkdirAll answers nil for
\* a directory that exists; for one that does not, fail is whether it ends
\* with an error (EACCES, ENOTDIR, ...).
Configure(p, dir, fail) ==
    IF ~dir.exists /\ fail
    THEN [p |-> p, dir |-> dir, err |-> TRUE]
    ELSE [p |-> [p EXCEPT !.Configured = TRUE], dir |-> MkdirAll(dir),
          err |-> FALSE]

InitPkg ==
    /\ store = [n \in ScenarioNames |-> "dir"]
    /\ provDir \in [Range(KnownProviders) -> InitialDirs(ScenarioNames)]
    /\ envCount = 0
    /\ view = "status"
    /\ manageModel = [provider |-> NoProvider, skills |-> <<>>]
    /\ seen = [dir |-> NoDir, store |-> <<>>]
    /\ last = NoLast
    /\ LockIdle /\ ListIdle /\ ProbeIdle /\ CfgIdle
    /\ PkgIdle /\ GroupIdle /\ SearchIdle /\ TuiIdle /\ LateIdle

\* What the provider package leaves alone.
pkgOthers ==
    <<store, envCount, view, manageModel, seen, last, lockVars, listVars,
      probeVars, cfgVars, groupVars, searchVars, tuiVars, lateVars>>

CallGet(name) ==
    /\ pkgProvider' = Get(name, provDir[name])
    /\ lastConfigure' = NoLastConfigure
    /\ UNCHANGED <<pkgOthers, provDir>>

CallConfigure(fail) ==
    /\ pkgProvider # NoPkgProvider
    /\ LET name == pkgProvider.Name
           r    == Configure(pkgProvider, provDir[name], fail)
       IN  /\ pkgProvider' = r.p
           /\ provDir' = [provDir EXCEPT ![name] = r.dir]
           /\ lastConfigure' =
                [op |-> "Configure", pre |-> pkgProvider,
                 preDir |-> provDir[name], fail |-> fail, err |-> r.err,
                 post |-> r.p, postDir |-> r.dir]
    /\ UNCHANGED pkgOthers

NextPkg ==
    \/ \E name \in Range(KnownProviders) : CallGet(name)
    \/ \E fail \in BOOLEAN : CallConfigure(fail)
    \/ \E p \in Providers : EnvRemoveProviderDir(p)

SpecPkg == InitPkg /\ [][NextPkg]_vars

(***************************************************************************)
(* The grouped listing of the manage view: loadSkillsForProvider sorts the *)
(* entries it appended, and buildDisplayList groups them.  Indices are     *)
(* those of the sequences here, one more than the slice indices of the     *)
(* code.                                                                   *)
(***************************************************************************)
\* The SkillEntry values loadSkillsForProvider appends for names, in order.
skillEntries(names) ==
    [i \in 1..Len(names) |->
        [Name |-> names[i], Group |-> extractGroup(names[i]),
         Linked |-> FALSE, Selected |-> FALSE]]

\* groupMap[g]: the indices of the skills of group g, in the order of skills.
groupMap(skills, g) ==
    SelectSeq([i \in 1..Len(skills) |-> i], LAMBDA i : skills[i].Group = g)

\* The keys of groupMap after sort.Strings.
groupNames(skills) == SortedNames({skills[i].Group : i \in 1..Len(skills)})

\* The loop of buildDisplayList over groupNames, from group gi on.
RECURSIVE displayItems(_, _, _)
displayItems(skills, names, gi) ==
    IF gi > Len(names) THEN <<>>
    ELSE LET skillIndices == groupMap(skills, names[gi])
         IN  <<[isGroup |-> TRUE, groupIdx |-> gi, skillIdx |-> 0,
                groupName |-> names[gi]]>>
             \o [k \in 1..Len(skillIndices) |->
                    [isGroup |-> FALSE, groupIdx |-> 0,
                     skillIdx |-> skillIndices[k], groupName |-> names[gi]]]
             \o displayItems(skills, names, gi + 1)

\* manageModel.buildDisplayList(): the displayList it leaves.
buildDisplayList(skills) ==
    IF skills = <<>> THEN <<>>
    ELSE displayItems(skills, groupNames(skills), 1)

\* Every order of every choice of at most MaxNames names.
InputOrders ==
    {s \in UNION {[1..k -> GroupNames] : k \in 0..MaxNames} :
        \A i, j \in DOMAIN s : i # j => s[i] # s[j]}

InitGroup ==
    /\ EngineIdle
    /\ LockIdle /\ ListIdle /\ ProbeIdle /\ CfgIdle
    /\ PkgIdle /\ SearchIdle /\ TuiIdle /\ LateIdle
    /\ groupIn \in InputOrders
    /\ lastGroup = NoLastGroup

\* What the grouping leaves alone.
groupOthers ==
    <<engineVars, lockVars, listVars, probeVars, cfgVars, pkgVars, searchVars,
      tuiVars, lateVars, groupIn>>

\* The skills are sorted, handed to the manage view as skillsLoadedMsg, and
\* the view builds its display list.
CallBuildDisplayList ==
    /\ lastGroup.op = "none"
    /\ LET skills == SortSkills(skillEntries(groupIn))
       IN  lastGroup' = [op |-> "build", skills |-> skills,
                         displayList |-> buildDisplayList(skills)]
    /\ UNCHANGED groupOthers

NextGroup == CallBuildDisplayList

SpecGroup == InitGroup /\ [][NextGroup]_vars

(***************************************************************************)
(* api.SearchAll over the answers of the two registries.  An answer is an  *)
(* error (the request failed, the status was not 200, the body was not     *)
(* JSON, playbooks.com said success=false) or the names of the skills      *)
(* found, in the registry's order; ID tells the entries of one answer      *)
(* apart.                                                                  *)
(***************************************************************************)
\* SearchSkillsSh(query, limit) and SearchPlaybooks(query, limit).
SearchSkillsSh(answer) ==
    IF answer.err THEN [err |-> TRUE, skills |-> <<>>]
    ELSE [err |-> FALSE,
          skills |-> [i \in 1..Len(answer.results) |->
                         [ID |-> i, Name |-> answer.results[i],
                          Registry |-> "skills.sh"]]]

SearchPlaybooks(answer) ==
    IF answer.err THEN [err |-> TRUE, skills |-> <<>>]
    ELSE [err |-> FALSE,
          skills |-> [i \in 1..Len(answer.results) |->
                         [ID |-> i, Name |-> answer.results[i],
                          Registry |-> "playbooks.com"]]]

\* A loop that keeps the last skill of each name, which the code does not do.
RECURSIVE DeduplicateKeepLast(_)
DeduplicateKeepLast(allSkills) ==
    IF allSkills = <<>> THEN <<>>
    ELSE IF \E i \in 2..Len(allSkills) : allSkills[i].Name = Head(allSkills).Name
         THEN DeduplicateKeepLast(Tail(allSkills))
         ELSE <<Head(allSkills)>> \o DeduplicateKeepLast(Tail(allSkills))

\* The loop over allSkills with the seen map: the first skill of each name.
Deduplicate(allSkills) ==
    LET unique == SelectSeq([i \in 1..Len(allSkills) |-> i],
                            LAMBDA i : \A j \in 1..(i - 1) :
                                          allSkills[j].Name # allSkills[i].Name)
    IN  [k \in 1..Len(unique) |-> allSkills[unique[k]]]

\* A SearchAll that gives up when a registry fails, which the code does not do.
SearchAllStrict(reg) ==
    LET a == SearchSkillsSh(reg.skillsSh)
        b == SearchPlaybooks(reg.playbooks)
    IN  IF a.err \/ b.err THEN [skills |-> <<>>, err |-> TRUE]
        ELSE [skills |-> Deduplicate(a.skills \o b.skills), err |-> FALSE]

\* SearchAll(query, limit): the skills and the error it returns.
SearchAll(reg) ==
    LET a == SearchSkillsSh(reg.skillsSh)
        b == SearchPlaybooks(reg.playbooks)
        allSkills == (IF a.err THEN <<>> ELSE a.skills)
                     \o (IF b.err THEN <<>> ELSE b.skills)
    IN  [skills |-> Deduplicate(allSkills), err |-> FALSE]

\* The command Enter returns in the search view: the message it answers with.
searchCmd(reg) ==
    LET r == SearchAll(reg)
    IN  IF r.err THEN [type |-> "searchErrMsg", results |-> <<>>]
        ELSE [type |-> "searchResultsMsg", results |-> r.skills]

\* What a registry may answer.
Answers ==
    {[err |-> TRUE, results |-> <<>>]}
    \cup {[err |-> FALSE, results |-> r] :
             r \in UNION {[1..k -> SearchNames] : k \in 0..MaxResults}}

InitSearch ==
    /\ EngineIdle
    /\ LockIdle /\ ListIdle /\ ProbeIdle /\ CfgIdle
    /\ PkgIdle /\ GroupIdle /\ TuiIdle /\ LateIdle
    /\ registry \in [skillsSh : Answers, playbooks : Answers]
    /\ lastSearch = NoLastSearch

\* What a search leaves alone.
searchOthers ==
    <<engineVars, lockVars, listVars, probeVars, cfgVars, pkgVars, groupVars,
      tuiVars, lateVars, registry>>

CallSearchAll ==
    /\ lastSearch.op = "none"
    /\ LET r == SearchAll(registry)
       IN  lastSearch' = [op |-> "SearchAll", skills |-> r.skills,
                          err |-> r.err, msg |-> searchCmd(registry).type]
    /\ UNCHANGED searchOthers

NextSearch == CallSearchAll

SpecSearch == InitSearch /\ [][NextSearch]_vars

(***************************************************************************)
(* The terminal program: model.Update on keys and on the messages of the   *)
(* commands it returned.  A command runs in its own goroutine and its      *)
(* message is handled later; cmds holds each pending command once.  The    *)
(* contents of the manage and config views, and the commands that only     *)
(* fill them, are those of Spec and SpecConfig: here the two views are     *)
(* places to be in.                                                        *)
(***************************************************************************)
NewSearchModel == [ZeroSearchModel EXCEPT !.focusOnInput = TRUE]

\* newPreviewModel(skill, width, height)
NewPreviewModel == [loading |-> TRUE, shown |-> "none"]

NoGlobalKey ==
    [handled |-> FALSE, state |-> "", quit |-> FALSE, cmds |-> {},
     fresh |-> FALSE]

\* Global key bindings with an Esc that always leads to the status view,
\* which the code does not have.
globalKeyEscHome(state, key) ==
    IF key \in {"ctrl+c", "q"}
    THEN IF state = "status"
         THEN [NoGlobalKey EXCEPT !.handled = TRUE, !.state = state,
                                  !.quit = TRUE]
         ELSE [NoGlobalKey EXCEPT !.handled = TRUE, !.state = "status",
                                  !.cmds = {"loadProviders"}]
    ELSE IF key = "s" /\ state = "status"
    THEN [NoGlobalKey EXCEPT !.handled = TRUE, !.state = "search",
                             !.fresh = TRUE]
    ELSE IF key = "esc" /\ state # "status"
    THEN [NoGlobalKey EXCEPT !.handled = TRUE, !.state = "status",
                             !.cmds = {"loadProviders"}]
    ELSE NoGlobalKey

\* The global key bindings of model.Update in view state: whether the key
\* was handled there (the function returned), and then the view, tea.Quit,
\* the command returned and whether searchModel was made anew.
globalKey(state, key) ==
    IF key \in {"ctrl+c", "q"}
    THEN IF state = "status"
         THEN [NoGlobalKey EXCEPT !.handled = TRUE, !.state = state,
                                  !.quit = TRUE]
         ELSE [NoGlobalKey EXCEPT !.handled = TRUE, !.state = "status",
                                  !.cmds = {"loadProviders"}]
    ELSE IF key = "s" /\ state = "status"
    THEN [NoGlobalKey EXCEPT !.handled = TRUE, !.state = "search",
                             !.fresh = TRUE]
    ELSE IF key = "esc" /\ state = "preview"
    THEN [NoGlobalKey EXCEPT !.handled = TRUE, !.state = "search"]
    ELSE IF key = "esc" /\ state # "status"
    THEN [NoGlobalKey EXCEPT !.handled = TRUE, !.state = "status",
                             !.cmds = {"loadProviders"}]
    ELSE NoGlobalKey

\* statusModel.Update on a key: the command it returns.
statusModelUpdateKey(sm, key) ==
    IF key = "enter" /\ Len(sm.providers) > 0 THEN {"openManage"}
    ELSE IF key = "c" /\ Len(sm.providers) > 0 THEN {"openConfig"}
    ELSE {}

\* textinput.Model.Update on a key: a printable character is appended.
inputUpdate(input, key) ==
    IF key \in Printable THEN Append(input, key) ELSE input

\* searchModel.Update on a key: the model and the command it returns.
searchModelUpdateKey(m, key) ==
    IF key = "tab"
    THEN [m |-> IF m.results THEN [m EXCEPT !.focusOnInput = ~@] ELSE m,
          cmds |-> {}]
    ELSE IF key = "enter" /\ m.focusOnInput /\ ~m.loading /\ m.input # <<>>
    THEN [m |-> [m EXCEPT !.loading = TRUE], cmds |-> {"search"}]
    ELSE IF key = "enter" /\ ~m.focusOnInput /\ m.results
    THEN [m |-> m, cmds |-> {"openPreview"}]
    ELSE [m |-> IF m.focusOnInput
                THEN [m EXCEPT !.input = inputUpdate(@, key)]
                ELSE m,
          cmds |-> {}]

\* model.Update(tea.KeyMsg): the view and the rest of the model it returns.
modelUpdateKey(state, t, sm, key) ==
    LET g == globalKey(state, key)
    IN  IF g.handled
        THEN [view |-> g.state,
              tui  |-> [t EXCEPT !.quit = g.quit,
                                 !.cmds = @ \cup g.cmds,
                                 !.searchModel =
                                     IF g.fresh THEN NewSearchModel ELSE @]]
        ELSE IF state = "status"
        THEN [view |-> state,
              tui  |-> [t EXCEPT !.cmds = @ \cup statusModelUpdateKey(sm, key)]]
        ELSE IF state = "search"
        THEN LET r == searchModelUpdateKey(t.searchModel, key)
             IN  [view |-> state,
                  tui  |-> [t EXCEPT !.searchModel = r.m,
                                     !.cmds = @ \cup r.cmds]]
        ELSE [view |-> state, tui |-> t]

\* model.Update on the message of command c, which ended well (ok) or not;
\* found tells whether a search found a skill.  A message that is not the
\* model's own goes to the model of the view at hand, which drops what is
\* not its own.
modelUpdateMsg(state, t, sm, dirs, c, ok, found) ==
    LET rest == [t EXCEPT !.cmds = @ \ {c}]
    IN  IF c = "openManage"
        THEN [view |-> "manage", sm |-> sm, tui |-> rest]
        ELSE IF c = "openConfig"
        THEN [view |-> "config", sm |-> sm, tui |-> rest]
        ELSE IF c = "openPreview"
        THEN [view |-> "preview", sm |-> sm,
              tui |-> [rest EXCEPT !.previewModel = NewPreviewModel,
                                   !.cmds = @ \cup {"fetch"}]]
        ELSE IF c = "loadProviders" /\ state = "status"
        THEN [view |-> state, sm |-> [sm EXCEPT !.providers = detectProviders(dirs)],
              tui |-> rest]
        ELSE IF c = "fetch" /\ state = "preview"
        THEN [view |-> state, sm |-> sm,
              tui |-> [rest EXCEPT !.previewModel =
                          [loading |-> FALSE,
                           shown |-> IF ok THEN "content" ELSE "error"]]]
        ELSE IF c = "search" /\ state = "search"
        THEN [view |-> state, sm |-> sm,
              tui |-> [rest EXCEPT !.searchModel =
                          [@ EXCEPT !.loading = FALSE, !.results = found,
                                    !.focusOnInput =
                                        IF found THEN FALSE ELSE @]]]
        ELSE [view |-> state, sm |-> sm, tui |-> rest]

\* The file system under the terminal program: both provider directories
\* exist and are empty.
TuiFiles ==
    /\ store = [n \in ScenarioNames |-> "dir"]
    /\ provDir = [p \in Range(KnownProviders) |->
                    [exists |-> TRUE, ent |-> [n \in ScenarioNames |-> "none"]]]
    /\ envCount = 0
    /\ manageModel = [provider |-> NoProvider, skills |-> <<>>]
    /\ seen = [dir |-> NoDir, store |-> <<>>]
    /\ last = NoLast
    /\ statusModel = [providers |-> <<>>]
    /\ configModel = [providers |-> <<>>, dirty |-> FALSE]
    /\ configFile = NoConfigFile
    /\ LockIdle /\ ListIdle /\ ProbeIdle
    /\ PkgIdle /\ GroupIdle /\ SearchIdle /\ LateIdle
    /\ lastKey = NoKey

\* initialModel() and the command of model.Init().
InitialTui ==
    [quit |-> FALSE, searchModel |-> ZeroSearchModel,
     previewModel |-> ZeroPreviewModel, cmds |-> {"loadProviders"}]

\* Run() and RunSearch(query).
InitTui ==
    /\ TuiFiles
    /\ \/ view = "status" /\ tui = InitialTui
       \/ /\ view = "search"
          /\ \E query \in {<<>>, <<"s">>} :
                tui = [InitialTui EXCEPT
                          !.searchModel = [NewSearchModel EXCEPT !.input = query]]

\* RunPreview(skill).
InitPreview ==
    /\ TuiFiles
    /\ view = "preview"
    /\ tui = [InitialTui EXCEPT !.previewModel = NewPreviewModel]

\* What the terminal program leaves alone.
tuiOthers ==
    <<store, provDir, envCount, manageModel, seen, last, lockVars, listVars,
      probeVars, configModel, configFile, pkgVars, groupVars, searchVars,
      lateVars>>

KeyPress(key) ==
    /\ ~tui.quit
    /\ LET r == modelUpdateKey(view, tui, statusModel, key)
       IN  /\ Len(r.tui.searchModel.input) <= MaxQuery
           /\ view' = r.view
           /\ tui' = r.tui
    /\ lastKey' = [key |-> key, from |-> view]
    /\ UNCHANGED <<tuiOthers, statusModel>>

\* A pending command ends and model.Update handles its message.
CmdDone(c, ok, found) ==
    /\ ~tui.quit
    /\ c \in tui.cmds
    /\ LET r == modelUpdateMsg(view, tui, statusModel, provDir, c, ok, found)
       IN  /\ view' = r.view
           /\ tui' = r.tui
           /\ statusModel' = r.sm
    /\ lastKey' = NoKey
    /\ UNCHANGED tuiOthers

Cmds ==
    {"loadProviders", "openManage", "openConfig", "openPreview", "fetch",
     "search"}

CmdStep == \E c \in Cmds, ok \in BOOLEAN, found \in BOOLEAN : CmdDone(c, ok, found)

NextTui ==
    \/ \E key \in Keys : KeyPress(key)
    \/ CmdStep

SpecTui == InitTui /\ [][NextTui]_vars

\* The program started by the preview command.  The runtime runs every
\* command that was returned and hands its message to model.Update.
SpecPreview == InitPreview /\ [][NextTui]_vars /\ WF_vars(CmdStep)

(***************************************************************************)
(* Space in the manage view, on a group header or on a skill.  The cursor  *)
(* is an input here: Space is pressed on any item of the display list.     *)
(***************************************************************************)
\* m.groups as buildDisplayList leaves it.
buildGroups(skills) ==
    LET names == groupNames(skills)
    IN  [gi \in 1..Len(names) |->
            [Name |-> names[gi], Skills |-> groupMap(skills, names[gi])]]

\* manageModel.isGroupAllSelected(groupIdx)
isGroupAllSelected(skills, group) ==
    \A k \in 1..Len(group.Skills) : skills[group.Skills[k]].Selected

\* A toggle that flips every skill of the group by itself, which the code
\* does not do.
toggleGroupFlipping(skills, group) ==
    [i \in 1..Len(skills) |->
        IF i \in Range(group.Skills)
        THEN [skills[i] EXCEPT !.Selected = ~@]
        ELSE skills[i]]

\* manageModel.toggleGroup(groupIdx): the skills it leaves.
toggleGroup(skills, group) ==
    LET allSelected == isGroupAllSelected(skills, group)
    IN  [i \in 1..Len(skills) |->
            IF i \in Range(group.Skills)
            THEN [skills[i] EXCEPT !.Selected = ~allSelected]
            ELSE skills[i]]

\* The " " case of manageModel.Update with the cursor on item i.
toggleSelection(skills, i) ==
    LET displayList == buildDisplayList(skills)
        item        == displayList[i]
    IN  IF item.isGroup
        THEN toggleGroup(skills, buildGroups(skills)[item.groupIdx])
        ELSE [skills EXCEPT ![item.skillIdx].Selected = ~@]

\* The lists a manage view may hold: the sorted entries of at most MaxNames
\* names, each selected or not.
SelectionLists ==
    UNION {
        LET sorted == SortSkills(skillEntries(SortedNames(S)))
        IN  {[i \in 1..Len(sorted) |-> [sorted[i] EXCEPT !.Selected = f[i]]] :
                f \in [1..Len(sorted) -> BOOLEAN]} :
        S \in {T \in SUBSET GroupNames : Cardinality(T) <= MaxNames}}

InitToggle ==
    /\ store = <<>>
    /\ provDir = <<>>
    /\ envCount = 0
    /\ view = "manage"
    /\ manageModel \in [provider : {[Name |-> "claude", Configured |-> TRUE]},
                        skills : SelectionLists]
    /\ seen = [dir |-> NoDir, store |-> <<>>]
    /\ last = NoLast
    /\ AuxIdle

KeySpaceOn(i) ==
    /\ view = "manage"
    /\ i \in 1..Len(buildDisplayList(manageModel.skills))
    /\ LET item == buildDisplayList(manageModel.skills)[i]
       IN  /\ manageModel' = [manageModel EXCEPT
                                !.skills = toggleSelection(@, i)]
           /\ last' = [NoLast EXCEPT
                         !.op = IF item.isGroup THEN "toggleGroup"
                                ELSE "toggleSkill",
                         !.name = IF item.isGroup THEN item.groupName
                                  ELSE manageModel.skills[item.skillIdx].Name,
                         !.skills = manageModel.skills]
    /\ UNCHANGED <<fsVars, view, seen>>
    /\ UNCHANGED auxVars

NextToggle ==
    \/ \E i \in 1..(2 * MaxNames) : KeySpaceOn(i)
    \/ KeyA
    \/ KeyN

SpecToggle == InitToggle /\ [][NextToggle]_vars

(***************************************************************************)
(* The config view under the program's keys: the sections, the text input  *)
(* of a repository to add, and the save command, which runs beside Update. *)
(***************************************************************************)
\* The keys pressed in the config view while a repository is added, and
\* while the configuration is saved.
EditKeys == {"tab", " ", "a", "/", "enter", "esc", "q"}

SaveKeys == {"tab", " ", "s", "q"}

\* The text input takes MaxInput keys, the repos grow to MaxRepos and
\* MaxSaves save commands wait at a time.
MaxInput == 2

MaxRepos == 4

MaxSaves == 1

\* A text as the keys that typed it; a text of the code is taken whole.
Text(t) == <<t>>

\* newConfigModel(): both registries enabled, the three default repos and
\* the providers that detectProviders() finds.
newConfigModel(dirs) ==
    [NoConfigView EXCEPT
        !.registries = <<[Name |-> "skills.sh", Enabled |-> TRUE],
                         [Name |-> "playbooks.com", Enabled |-> TRUE]>>,
        !.repos = <<[Owner |-> Text("yoanbernabeu"), Repo |-> Text("grepai-skills")],
                    [Owner |-> Text("better-auth"), Repo |-> Text("skills")],
                    [Owner |-> Text("awni"), Repo |-> Text("mlx-skills")]>>,
        !.providers = detectProviders(dirs)]

\* strings.Split(input, "/"): the parts between the separators.
RECURSIVE SplitSlash(_)
SplitSlash(input) ==
    IF \A i \in 1..Len(input) : input[i] # "/" THEN <<input>>
    ELSE LET i == CHOOSE j \in 1..Len(input) :
                      input[j] = "/" /\ \A k \in 1..(j - 1) : input[k] # "/"
         IN  <<SubSeq(input, 1, i - 1)>>
             \o SplitSlash(SubSeq(input, i + 1, Len(input)))

\* What saveConfig() marshals from the model it is given.
configData(registries, repos, providers) ==
    [written |-> TRUE, Registries |-> registries, Repos |-> repos,
     Providers |-> saveConfig(providers).enabled_providers]

\* configModel.toggleItem() with the cursor on the first item: the model
\* and the directories it leaves.  The repos section has no case.
toggleFirstItem(m, dirs) ==
    IF m.section = 0 /\ Len(m.registries) > 0
    THEN [m |-> [m EXCEPT !.registries[1].Enabled = ~@], dirs |-> dirs]
    ELSE IF m.section = 2 /\ Len(m.providers) > 0
    THEN LET r == toggleItem(m.providers, dirs, 1)
         IN  [m |-> [m EXCEPT !.providers = r.providers], dirs |-> r.dirs]
    ELSE [m |-> m, dirs |-> dirs]

\* configModel.Update on a key: the model and the directories it leaves.
\* While a repository is added, Enter takes the input as owner/repo, Esc
\* drops it and every other key goes to the text input; otherwise Tab moves
\* to the next section, Space toggles the item and sets dirty, "a" in the
\* repos section starts the text input and "s" returns the save command,
\* bound to a copy of the model.
configModelUpdateKey(m, dirs, key) ==
    IF m.addingRepo
    THEN IF key = "enter"
         THEN LET parts == SplitSlash(m.textInput)
              IN  [m |-> [m EXCEPT
                            !.repos = IF Len(parts) = 2
                                      THEN Append(@, [Owner |-> parts[1],
                                                      Repo |-> parts[2]])
                                      ELSE @,
                            !.dirty = IF Len(parts) = 2 THEN TRUE ELSE @,
                            !.addingRepo = FALSE,
                            !.textInput = <<>>],
                   dirs |-> dirs]
         ELSE IF key = "esc"
         THEN [m |-> [m EXCEPT !.addingRepo = FALSE, !.textInput = <<>>],
               dirs |-> dirs]
         ELSE [m |-> [m EXCEPT !.textInput = inputUpdate(@, key)],
               dirs |-> dirs]
    ELSE IF key = "tab"
    THEN [m |-> [m EXCEPT !.section = (@ + 1) % 3], dirs |-> dirs]
    ELSE IF key = " "
    THEN LET r == toggleFirstItem(m, dirs)
         IN  [m |-> [r.m EXCEPT !.dirty = TRUE], dirs |-> r.dirs]
    ELSE IF key = "a" /\ m.section = 1
    THEN [m |-> [m EXCEPT !.addingRepo = TRUE], dirs |-> dirs]
    ELSE IF key = "s"
    THEN [m |-> [m EXCEPT
                   !.saves = @ \cup {[registries |-> m.registries,
                                      repos |-> m.repos,
                                      providers |-> m.providers]}],
          dirs |-> dirs]
    ELSE [m |-> m, dirs |-> dirs]

\* What the config model holds of the configuration.
Held(m) == [registries |-> m.registries, repos |-> m.repos,
            providers |-> m.providers]

InitConfigKeys ==
    /\ store = [n \in ScenarioNames |-> "dir"]
    /\ provDir \in [Range(KnownProviders) ->
                      {[exists |-> e, ent |-> [n \in ScenarioNames |-> "none"]] :
                          e \in BOOLEAN}]
    /\ envCount = 0
    /\ view = "status"
    /\ manageModel = [provider |-> NoProvider, skills |-> <<>>]
    /\ seen = [dir |-> NoDir, store |-> <<>>]
    /\ last = NoLast
    /\ AuxIdle

\* What the config view's keys leave alone.
configKeysOthers ==
    <<store, envCount, manageModel, seen, last, lockVars, listVars, probeVars,
      cfgVars, pkgVars, groupVars, searchVars, tuiVars, asyncVars,
      cursorVars, statusVars>>

\* "c" in the status view and its openConfigMsg: the config view opens on a
\* new configModel.  It is pressed when no save command waits.
OpenConfig ==
    /\ view = "status"
    /\ configView.saves = {}
    /\ view' = "config"
    /\ configView' = newConfigModel(provDir)
    /\ lastConfigKey' = [NoConfigKey EXCEPT !.key = "c", !.from = "status"]
    /\ UNCHANGED <<configKeysOthers, provDir, configDisk>>

\* model.Update on a key in the config view: the global bindings come
\* first, and a key they handle does not reach configModel.Update.
ConfigKeyPress(key) ==
    /\ view = "config"
    /\ LET g == globalKey(view, key)
           r == configModelUpdateKey(configView, provDir, key)
           before == [NoConfigKey EXCEPT
                        !.key = key, !.from = view,
                        !.adding = configView.addingRepo,
                        !.dirty = configView.dirty]
       IN  IF g.handled
           THEN /\ view' = g.state
                /\ lastConfigKey' = before
                /\ UNCHANGED <<configView, provDir>>
           ELSE /\ Len(r.m.textInput) <= MaxInput
                /\ Len(r.m.repos) <= MaxRepos
                /\ Cardinality(r.m.saves) <= MaxSaves
                /\ configView' = r.m
                /\ provDir' = r.dirs
                /\ lastConfigKey' =
                       [before EXCEPT
                          !.changed = Held(r.m) # Held(configView)]
                /\ UNCHANGED view
    /\ UNCHANGED <<configKeysOthers, configDisk>>

\* A save command runs and its message is handled.  It was bound to a copy
\* of the model whose registries and providers share their arrays with the
\* view's model, which toggles them in place: while the view's model is the
\* one it was copied from, the command reads of them what was there at the
\* key or what is there now.  When the file is written, configSavedMsg
\* clears dirty in the config view, unless a repository is being added (the
\* message then goes to the text input); another view drops the message.
SaveDone(c, ok, late) ==
    /\ c \in configView.saves
    /\ late => view = "config"
    /\ LET data == IF late
                   THEN configData(configView.registries, c.repos,
                                   configView.providers)
                   ELSE configData(c.registries, c.repos, c.providers)
       IN  /\ configDisk' = IF ok THEN data ELSE configDisk
           /\ configView' =
                  [configView EXCEPT
                     !.saves = @ \ {c},
                     !.dirty = IF ok /\ view = "config"
                                  /\ ~configView.addingRepo
                               THEN FALSE ELSE @]
    /\ lastConfigKey' = NoConfigKey
    /\ UNCHANGED <<configKeysOthers, provDir, view>>

NextConfigKeys ==
    \/ OpenConfig
    \/ \E key \in EditKeys : ConfigKeyPress(key)

SpecConfigKeys == InitConfigKeys /\ [][NextConfigKeys]_vars

NextConfigSave ==
    \/ OpenConfig
    \/ \E key \in SaveKeys : ConfigKeyPress(key)
    \/ \E c \in configView.saves, ok \in BOOLEAN, late \in BOOLEAN :
           SaveDone(c, ok, late)

SpecConfigSave == InitConfigKeys /\ [][NextConfigSave]_vars

(***************************************************************************)
(* The manage view with its commands running beside Update: the load that  *)
(* manageModel.Init() returns and the apply that Enter returns are         *)
(* goroutines, and their skillsLoadedMsg is handled by the view that is    *)
(* open when it arrives.  The command of Enter holds m.skills, the slice   *)
(* the view toggles in place.                                              *)
(***************************************************************************)
AsyncNames == {"auth-jwt"}

\* The commands that wait at a time, and the applies among them.
MaxPending == 2

MaxApplies == 1

loadCmd(provider) ==
    [kind |-> "load", provider |-> provider, shown |-> <<>>, arr |-> <<>>,
     shared |-> FALSE, i |-> 0]

\* The closure Enter returns: it holds m.provider and the slice m.skills.
enterCmd(m) ==
    [kind |-> "apply", provider |-> m.provider, shown |-> m.skills,
     arr |-> <<>>, shared |-> TRUE, i |-> 0]

\* The view's model gets another slice: the commands that hold the old one
\* keep it as it is now.
Detach(cmds, skills) ==
    {IF c.shared THEN [c EXCEPT !.shared = FALSE, !.arr = skills] ELSE c :
        c \in cmds}

\* An iteration of the loop of applySkillChanges that also removes what the
\* link points to, which the code does not do.
applyItemOnFollowingLink(st, dirs, provider, skill) ==
    LET r == ApplyItem(skill, dirs[provider.Name], {})
    IN  [store |-> IF planAction(skill) = "RemoveLink"
                   THEN [st EXCEPT ![skill.Name] = "none"] ELSE st,
         dirs |-> [dirs EXCEPT ![provider.Name] = r.dir],
         log |-> Range(r.log)]

\* One iteration of the loop of applySkillChanges(provider, skills) on the
\* central store and the providers' directories: os.Symlink and os.Remove
\* are called on filepath.Join(provider.Path, skill.Name) alone.
applyItemOn(st, dirs, provider, skill) ==
    LET r == ApplyItem(skill, dirs[provider.Name], {})
    IN  [store |-> st,
         dirs |-> [dirs EXCEPT ![provider.Name] = r.dir],
         log |-> Range(r.log)]

\* os.MkdirAll(provider.Path) before the loop, when the provider was not
\* configured.
applyMkdir(dirs, provider) ==
    IF ~provider.Configured
    THEN [dirs EXCEPT ![provider.Name] = MkdirAll(@)]
    ELSE dirs

\* manageModel.Update on a skillsLoadedMsg: m.skills = msg.skills.  The
\* message does not say which provider it was loaded for.
manageModelLoaded(m, skills) == [m EXCEPT !.skills = skills]

\* The first provider's directory holds a managed link, the second one's
\* is missing or empty.
InitAsync ==
    /\ store = [n \in AsyncNames |-> "dir"]
    /\ provDir \in
          {[p \in Range(KnownProviders) |->
              IF p = KnownProviders[1]
              THEN [exists |-> TRUE,
                    ent |-> [n \in AsyncNames |->
                               IF n = "auth-jwt" THEN "managed" ELSE "none"]]
              ELSE [exists |-> e, ent |-> [n \in AsyncNames |-> "none"]]] :
             e \in BOOLEAN}
    /\ envCount = 0
    /\ view = "status"
    /\ manageModel = [provider |-> NoProvider, skills |-> <<>>]
    /\ seen = [dir |-> NoDir, store |-> <<>>]
    /\ last = NoLast
    /\ AuxIdle

\* What the manage view's commands leave alone.
asyncOthers ==
    <<envCount, seen, last, lockVars, listVars, probeVars, cfgVars, pkgVars,
      groupVars, searchVars, tuiVars, configKeysVars, cursorVars, statusVars>>

\* Enter or m on a provider in the status view and its openManageMsg:
\* newManageModel(provider) and the load command of its Init().
AsyncOpen(p) ==
    /\ view = "status"
    /\ Cardinality(manageCmds \cup {loadCmd(detectProvider(p))}) <= MaxPending
    /\ view' = "manage"
    /\ manageModel' = [provider |-> detectProvider(p), skills |-> <<>>]
    /\ manageCmds' = Detach(manageCmds, manageModel.skills)
                        \cup {loadCmd(detectProvider(p))}
    /\ lastManage' = NoLastManage
    /\ UNCHANGED <<asyncOthers, store, provDir>>

\* Esc in the manage view: model.Update goes back to the status view.
AsyncEsc ==
    /\ view = "manage"
    /\ view' = "status"
    /\ UNCHANGED <<asyncOthers, store, provDir, manageModel, asyncVars>>

\* Enter in the manage view returns the apply command.
AsyncEnter ==
    /\ view = "manage"
    /\ Cardinality(manageCmds \cup {enterCmd(manageModel)}) <= MaxPending
    /\ Cardinality({c \in manageCmds \cup {enterCmd(manageModel)} :
                       c.kind = "apply"}) <= MaxApplies
    /\ manageCmds' = manageCmds \cup {enterCmd(manageModel)}
    /\ UNCHANGED <<asyncOthers, store, provDir, view, manageModel, lastManage>>

\* model.Update on a skillsLoadedMsg: the manage view takes it when it is
\* the view at hand, and the status view drops it.
Deliver(cmds, skills, provider, hist) ==
    IF view = "manage"
    THEN /\ manageModel' = manageModelLoaded(manageModel, skills)
         /\ manageCmds' = Detach(cmds, manageModel.skills)
         /\ lastManage' = [hist EXCEPT !.listFor = provider.Name]
    ELSE /\ manageCmds' = cmds
         /\ lastManage' = [hist EXCEPT !.listFor = lastManage.listFor]
         /\ UNCHANGED manageModel

\* The load command of manageModel.Init() runs and its message is handled.
LoadDone(c) ==
    /\ c \in manageCmds
    /\ c.kind = "load"
    /\ Deliver(manageCmds \ {c},
               loadSkillsForProvider(c.provider, store,
                                     provDir[c.provider.Name]),
               c.provider,
               [NoLastManage EXCEPT !.op = "loaded",
                                    !.prov = c.provider.Name])
    /\ UNCHANGED <<asyncOthers, store, provDir, view>>

\* One iteration of the loop of an apply command: it reads the item from
\* its slice as the slice is now.
ApplyItemStep(c) ==
    /\ c \in manageCmds
    /\ c.kind = "apply"
    /\ c.i < Len(c.shown)
    /\ LET skills == IF c.shared THEN manageModel.skills ELSE c.arr
           dirs   == IF c.i = 0 THEN applyMkdir(provDir, c.provider)
                     ELSE provDir
       IN  \E r \in {applyItemOn(store, dirs, c.provider, skills[c.i + 1])} :
             /\ store' = r.store
             /\ provDir' = r.dirs
             /\ manageCmds' = (manageCmds \ {c}) \cup {[c EXCEPT !.i = @ + 1]}
             /\ lastManage' = [lastManage EXCEPT
                                 !.op = "item", !.prov = c.provider.Name,
                                 !.shown = <<c.shown[c.i + 1]>>,
                                 !.read = <<skills[c.i + 1]>>,
                                 !.calls = r.log]
    /\ UNCHANGED <<asyncOthers, view, manageModel>>

\* The loop of an apply command has ended: it loads the provider's list
\* again, and its message is handled.
ApplyDone(c) ==
    /\ c \in manageCmds
    /\ c.kind = "apply"
    /\ c.i = Len(c.shown)
    /\ LET dirs == IF c.i = 0 THEN applyMkdir(provDir, c.provider)
                   ELSE provDir
       IN  /\ provDir' = dirs
           /\ Deliver(manageCmds \ {c},
                      loadSkillsForProvider(c.provider, store,
                                            dirs[c.provider.Name]),
                      c.provider,
                      [NoLastManage EXCEPT
                         !.op = "applied", !.prov = c.provider.Name])
    /\ UNCHANGED <<asyncOthers, store, view>>

NextAsync ==
    \/ \E p \in Range(KnownProviders) : AsyncOpen(p)
    \/ AsyncEsc
    \/ \E i \in 1..Cardinality(AsyncNames) : KeySpace(i)
    \/ KeyA
    \/ KeyN
    \/ AsyncEnter
    \/ \E c \in manageCmds : LoadDone(c)
    \/ \E c \in manageCmds : ApplyItemStep(c)
    \/ \E c \in manageCmds : ApplyDone(c)

SpecAsync == InitAsync /\ [][NextAsync]_vars

(***************************************************************************)
(* The cursor of the manage view: selectedIdx over the display list and    *)
(* the page of its paginator (bubbles/paginator), under the navigation     *)
(* keys and the lists that skillsLoadedMsg brings.                         *)
(***************************************************************************)
\* const perPage
perPage == 18

\* The navigation keys, one of each binding ("up" is also k, "down" j,
\* "left" h and pgup, "right" l and pgdown).
NavKeys == {"up", "down", "left", "right", "home", "end"}

\* The lengths of the display lists that are loaded: the skills and their
\* group headers.
DisplayLens == {0, 2, 19, 40}

\* The page is followed up to MaxPage: NextPage goes on without end from a
\* page beyond the last one.
MaxPage == 4

\* Go's integer division, which truncates toward zero.
GoDiv(a, b) == IF a >= 0 THEN a \div b ELSE -((-a) \div b)

\* paginator.SetTotalPages(items): fewer than one item changes nothing.
SetTotalPages(pg, items) ==
    IF items < 1 THEN pg
    ELSE [pg EXCEPT !.TotalPages =
             (items \div perPage) + (IF items % perPage > 0 THEN 1 ELSE 0)]

\* paginator.NextPage(): one page on, unless Page is TotalPages - 1.
NextPage(pg) ==
    IF pg.Page # pg.TotalPages - 1 THEN [pg EXCEPT !.Page = @ + 1] ELSE pg

\* paginator.PrevPage(): one page back, unless Page is 0.
PrevPage(pg) ==
    IF pg.Page > 0 THEN [pg EXCEPT !.Page = @ - 1] ELSE pg

\* paginator.Update(msg) with the default key map: it turns the page on
\* right, l and pgdown, and back on left, h and pgup.
paginatorUpdate(pg, key) ==
    IF key = "right" THEN NextPage(pg)
    ELSE IF key = "left" THEN PrevPage(pg)
    ELSE pg

\* newManageModel(provider): paginator.New() with PerPage = perPage, and
\* no list yet.
newCursor == [len |-> 0, selectedIdx |-> 0, Page |-> 0, TotalPages |-> 1]

\* manageModel.Update on skillsLoadedMsg: buildDisplayList() sets the total
\* pages unless the list is empty, selectedIdx = 0, and the paginator is
\* updated with the message.
cursorLoaded(m, n) ==
    [(IF n = 0 THEN m ELSE SetTotalPages(m, n))
        EXCEPT !.len = n, !.selectedIdx = 0]

\* The switch of manageModel.Update on a navigation key.
cursorSwitch(m, key) ==
    CASE key = "up" ->
           IF m.selectedIdx > 0
           THEN [m EXCEPT !.selectedIdx = @ - 1,
                          !.Page = GoDiv(m.selectedIdx - 1, perPage)]
           ELSE m
      [] key = "down" ->
           IF m.selectedIdx < m.len - 1
           THEN [m EXCEPT !.selectedIdx = @ + 1,
                          !.Page = GoDiv(m.selectedIdx + 1, perPage)]
           ELSE m
      [] key = "left" ->
           [PrevPage(m) EXCEPT !.selectedIdx = PrevPage(m).Page * perPage]
      [] key = "right" ->
           [NextPage(m) EXCEPT !.selectedIdx = NextPage(m).Page * perPage]
      [] key = "home" -> [m EXCEPT !.selectedIdx = 0, !.Page = 0]
      [] key = "end" ->
           [m EXCEPT !.selectedIdx = m.len - 1, !.Page = m.TotalPages - 1]
      [] OTHER -> m

\* manageModel.Update on a navigation key: the switch, and then
\* m.paginator.Update(msg) with the same key.
cursorUpdateKey(m, key) == paginatorUpdate(cursorSwitch(m, key), key)

InitCursor ==
    /\ EngineIdle
    /\ LockIdle /\ ListIdle /\ ProbeIdle /\ CfgIdle
    /\ PkgIdle /\ GroupIdle /\ SearchIdle /\ TuiIdle
    /\ ConfigKeysIdle /\ AsyncIdle /\ StatusIdle
    /\ cursor = newCursor
    /\ lastNav = ""

\* What the cursor leaves alone.
cursorOthers ==
    <<engineVars, lockVars, listVars, probeVars, cfgVars, pkgVars, groupVars,
      searchVars, tuiVars, configKeysVars, asyncVars, statusVars>>

\* A skillsLoadedMsg with a list of n display items is handled.
CursorLoaded(n) ==
    /\ cursor' = cursorLoaded(cursor, n)
    /\ lastNav' = ""
    /\ UNCHANGED cursorOthers

\* A navigation key is handled.
CursorKey(key) ==
    /\ cursorUpdateKey(cursor, key).Page <= MaxPage
    /\ cursor' = cursorUpdateKey(cursor, key)
    /\ lastNav' = key
    /\ UNCHANGED cursorOthers

NextCursor ==
    \/ \E n \in DisplayLens : CursorLoaded(n)
    \/ \E key \in NavKeys : CursorKey(key)

SpecCursor == InitCursor /\ [][NextCursor]_vars

(***************************************************************************)
(* The status view and its loads: model.Init() and every return to the     *)
(* status view issue loadProviders, "r" issues it again, and the message   *)
(* of a command is handled by the view that is open when it arrives.       *)
(***************************************************************************)
\* The keys pressed: refresh, search, config, save (in the config view),
\* Esc and q.
StatusKeys == {"r", "s", "c", "esc", "q"}

\* The keys that are pressed in a run.
MaxKeys == 4

\* newStatusModel() under model.Init(): loading, with the load issued.
newStatusView ==
    [NoStatusView EXCEPT !.loading = TRUE, !.cmds = {"loadProviders"},
                         !.keys = MaxKeys]

\* statusModel.Update on a key that is not a global binding: "c" returns
\* the openConfigMsg command when providers is not empty, and "r" sets
\* loading and returns loadProviders.
statusViewKey(m, key) ==
    IF key = "c" /\ m.loaded THEN [m EXCEPT !.cmds = @ \cup {"openConfig"}]
    ELSE IF key = "r"
    THEN [m EXCEPT !.loading = TRUE, !.cmds = @ \cup {"loadProviders"}]
    ELSE m

\* model.Update on a key: the global bindings (q and Esc return to the
\* status view with statusModel.Init(), s opens the search view), then the
\* view at hand: the status view, or the config view, where "s" returns
\* the save command.
statusUpdateKey(state, m, key) ==
    LET g == globalKey(state, key)
    IN  IF g.handled
        THEN [view |-> g.state,
              m |-> [m EXCEPT !.quit = g.quit, !.cmds = @ \cup g.cmds]]
        ELSE IF state = "status"
        THEN [view |-> state, m |-> statusViewKey(m, key)]
        ELSE IF state = "config" /\ key = "s"
        THEN [view |-> state, m |-> [m EXCEPT !.cmds = @ \cup {"save"}]]
        ELSE [view |-> state, m |-> m]

\* model.Update on the message of command c, which ended well (ok) or not:
\* openConfigMsg opens the config view; in the status view
\* providersLoadedMsg clears loading and sets providers, and errMsg (of a
\* save that failed) clears loading and sets err; another view drops them,
\* and configSavedMsg changes nothing here.
statusUpdateMsg(state, m, c, ok) ==
    LET rest == [m EXCEPT !.cmds = @ \ {c}]
    IN  IF c = "openConfig" THEN [view |-> "config", m |-> rest]
        ELSE IF c = "loadProviders" /\ state = "status"
        THEN [view |-> state,
              m |-> [rest EXCEPT !.loading = FALSE, !.loaded = TRUE]]
        ELSE IF c = "save" /\ ~ok /\ state = "status"
        THEN [view |-> state,
              m |-> [rest EXCEPT !.loading = FALSE, !.err = TRUE]]
        ELSE [view |-> state, m |-> rest]

\* What statusModel.View() shows.
statusShows(m) ==
    IF m.loading THEN "loading"
    ELSE IF m.err THEN "error"
    ELSE "providers"

\* Run() and RunSearch(query): the status view or the search view, and
\* the load of model.Init().
InitStatus ==
    /\ store = <<>>
    /\ provDir = <<>>
    /\ envCount = 0
    /\ view \in {"status", "search"}
    /\ manageModel = [provider |-> NoProvider, skills |-> <<>>]
    /\ seen = [dir |-> NoDir, store |-> <<>>]
    /\ last = NoLast
    /\ LockIdle /\ ListIdle /\ ProbeIdle /\ CfgIdle
    /\ PkgIdle /\ GroupIdle /\ SearchIdle /\ TuiIdle
    /\ ConfigKeysIdle /\ AsyncIdle /\ CursorIdle
    /\ statusView = newStatusView

\* What the status view leaves alone.
statusOthers ==
    <<store, provDir, envCount, manageModel, seen, last, lockVars, listVars,
      probeVars, cfgVars, pkgVars, groupVars, searchVars, tuiVars,
      configKeysVars, asyncVars, cursorVars>>

StatusKeyPress(key) ==
    /\ ~statusView.quit
    /\ statusView.keys > 0
    /\ LET r == statusUpdateKey(view, statusView, key)
       IN  /\ view' = r.view
           /\ statusView' = [r.m EXCEPT !.keys = @ - 1]
    /\ UNCHANGED statusOthers

StatusCmdDone(c, ok) ==
    /\ ~statusView.quit
    /\ c \in statusView.cmds
    /\ LET r == statusUpdateMsg(view, statusView, c, ok)
       IN  /\ view' = r.view
           /\ statusView' = r.m
    /\ UNCHANGED statusOthers

StatusCmdStep ==
    \E c \in {"loadProviders", "openConfig", "save"}, ok \in BOOLEAN :
        StatusCmdDone(c, ok)

NextStatus ==
    \/ \E key \in StatusKeys : StatusKeyPress(key)
    \/ StatusCmdStep

\* The runtime runs every command that was returned and hands its message
\* to model.Update.
SpecStatus == InitStatus /\ [][NextStatus]_vars /\ WF_vars(StatusCmdStep)

\* Provider.HasSkill(skillName): os.Stat follows symbolic links.
HasSkill(dir, st, n) ==
    /\ dir.exists
    /\ \/ dir.ent[n] \in {"file", "emptydir", "dir", "symlink"}
       \/ dir.ent[n] = "managed" /\ st[n] # "none"

(***************************************************************************)
(* Properties.  They read the history variable last: the directory and the *)
(* store an operation found (pre, preStore), the list it was given         *)
(* (skills), its system calls (log), the directory it left (post), the     *)
(* list it returned (out) and what it reported (report).                   *)
(***************************************************************************)
\* Whether the selection of list skills wants name n linked.
Wanted(skills, n) ==
    \E i \in 1..Len(skills) : skills[i].Name = n /\ skills[i].Selected

PreClass(n) == Classify(last.pre, last.preStore, n)

PostClass(n) == Classify(last.post, last.preStore, n)

\* C1: applying a selection, or unlinking a skill, never removes or changes
\* an entry of the provider directory that is Foreign.
C1_ForeignEntryKept ==
    last.op \in {"apply", "unlink"} =>
        \A n \in Names :
            PreClass(n) = "Foreign" => last.post.ent[n] = last.pre.ent[n]

\* C2: LinkToProvider neither deletes nor replaces a Foreign entry found at
\* the target name.
C2_LinkKeepsForeign ==
    (last.op = "link" /\ PreClass(last.name) = "Foreign") =>
        last.post.ent[last.name] = last.pre.ent[last.name]

\* C3: a Foreign entry under the name of a skill that is wanted linked is
\* planned as SkipConflict, reported as a conflict, and left unchanged.
C3_ConflictSkippedAndReported ==
    last.op = "apply" =>
        \A i \in 1..Len(last.skills) :
            LET s == last.skills[i]
            IN  (s.Selected /\ PreClass(s.Name) = "Foreign") =>
                   /\ planAction(s) = "SkipConflict"
                   /\ \E r \in Range(last.report) :
                         r.name = s.Name /\ r.outcome = "Conflict"
                   /\ last.post.ent[s.Name] = last.pre.ent[s.Name]

\* C4: reading a provider's link state gives Linked exactly to the skills
\* classified ManagedLinked, and HasSkill holds only of such skills.
C4_LinkedIffManagedLinked ==
    last.op = "load" =>
        /\ \A i \in 1..Len(last.out) :
              last.out[i].Linked <=> PreClass(last.out[i].Name) = "ManagedLinked"
        /\ \A n \in Names :
              HasSkill(last.pre, last.preStore, n) => PreClass(n) = "ManagedLinked"

\* C5: every mutation of an apply is made on the state as it is at the
\* time of the apply: the entry it creates or removes, the provider
\* directory and the skill's store entry are as they were when the flags
\* that decide it were read.
C5_MutationsDecidedFromCurrentState ==
    last.op = "apply" =>
        \A k \in 1..Len(last.log) :
            LET n == last.log[k].name
            IN  /\ last.seen.dir.exists = last.pre.exists
                /\ last.seen.dir.ent[n] = last.pre.ent[n]
                /\ last.seen.store[n] = last.preStore[n]

\* Whether the last apply found the directory and the store as they were
\* when its list was read: no other program changed them in between.
Undisturbed == last.seen.dir = last.pre /\ last.seen.store = last.preStore

\* Whether the system calls of the last apply include one on name n.
Touched(n) == \E k \in 1..Len(last.log) : last.log[k].name = n

\* C6: for every skill of an apply whose current state is not Foreign, the
\* apply realises the transition table: Absent and wanted becomes
\* ManagedLinked, ManagedLinked and not wanted becomes Absent, and the two
\* other cases make no system call and change nothing.  Stated for the
\* applies that no other program disturbs and in which no system call fails.
C6_TransitionTable ==
    (last.op = "apply" /\ last.fail = {} /\ Undisturbed) =>
        \A i \in 1..Len(last.skills) :
            LET s == last.skills[i]
                n == s.Name
            IN  /\ (PreClass(n) = "Absent" /\ s.Selected) =>
                       PostClass(n) = "ManagedLinked"
                /\ (PreClass(n) = "ManagedLinked" /\ ~s.Selected) =>
                       PostClass(n) = "Absent"
                /\ (PreClass(n) = "Absent" /\ ~s.Selected) =>
                       (~Touched(n) /\ PostClass(n) = "Absent")
                /\ (PreClass(n) = "ManagedLinked" /\ s.Selected) =>
                       (~Touched(n) /\ PostClass(n) = "ManagedLinked")

\* The scenario of the transition table: the store holds the three skills,
\* only react-best-practices is linked, the provider is configured, and the
\* selection wants react-best-practices and vue-testing.
ScenarioApplied ==
    /\ last.op = "apply" /\ last.fail = {} /\ Undisturbed
    /\ last.prov.Configured
    /\ last.pre = [exists |-> TRUE,
                   ent |-> [n \in ScenarioNames |->
                              IF n = "react-best-practices" THEN "managed"
                              ELSE "none"]]
    /\ last.preStore = [n \in ScenarioNames |-> "dir"]
    /\ \A n \in ScenarioNames :
          Wanted(last.skills, n) <=> n \in {"react-best-practices", "vue-testing"}

\* Its result: both wanted skills ManagedLinked, auth-jwt Absent.
ScenarioResult ==
    ScenarioApplied =>
        /\ PostClass("react-best-practices") = "ManagedLinked"
        /\ PostClass("vue-testing") = "ManagedLinked"
        /\ PostClass("auth-jwt") = "Absent"

\* C7: after an apply, the list read again and planned against the same
\* selection holds no create and no remove.  Stated for the applies that no
\* other program disturbs and in which the environment fails no system call.
C7_ReplanIsAllNoOp ==
    (last.op = "apply" /\ last.fail = {} /\ Undisturbed) =>
        \A j \in 1..Len(last.out) :
            planAction([last.out[j] EXCEPT
                          !.Selected = Wanted(last.skills, last.out[j].Name)])
              = "NoOp"

\* C8: when the system call of one item of an apply fails, every other item
\* with a system call to make still gets it, with its effect: a wanted
\* skill whose name is free in an existing directory is linked, an unwanted
\* entry that can be unlinked is gone.
C8_FailureDoesNotAbort ==
    last.op = "apply" =>
        \A i \in 1..Len(last.skills) :
            LET s == last.skills[i]
                n == s.Name
            IN  (n \notin last.fail /\ planAction(s) # "NoOp") =>
                   /\ Touched(n)
                   /\ (planAction(s) = "CreateLink" /\ last.post.exists
                         /\ last.pre.ent[n] = "none") =>
                          last.post.ent[n] = "managed"
                   /\ (planAction(s) = "RemoveLink"
                         /\ last.pre.ent[n] \in {"file", "emptydir", "managed", "symlink"}) =>
                          last.post.ent[n] = "none"

\* An apply in which the call of one item failed and a later item's call
\* was made and succeeded.
C8_Witness ==
    /\ last.op = "apply"
    /\ \E k, l \in 1..Len(last.log) :
          /\ k < l
          /\ last.log[k].name \in last.fail /\ ~last.log[k].ok
          /\ last.log[l].ok

\* C9: every apply reports an outcome for each item it made a system call
\* for: Failed when the call failed, Succeeded when it did not.
C9_EveryOutcomeReported ==
    last.op = "apply" =>
        \A k \in 1..Len(last.log) :
            \E r \in Range(last.report) :
                /\ r.name = last.log[k].name
                /\ r.outcome = IF last.log[k].ok THEN "Succeeded" ELSE "Failed"

\* Go's order on (group, name) pairs.
GroupNameLess(a, b) ==
    \/ StrLess(extractGroup(a), extractGroup(b))
    \/ extractGroup(a) = extractGroup(b) /\ StrLess(a, b)

\* C10: the system calls of an apply are made in the order of group, then
\* name, one for each item whose flags differ: the sequence is fixed by the
\* list and the selection.
C10_AppliedInGroupNameOrder ==
    last.op = "apply" =>
        /\ \A k, l \in 1..Len(last.log) :
              k < l => GroupNameLess(last.log[k].name, last.log[l].name)
        /\ {last.log[k].name : k \in 1..Len(last.log)} = Planned(last.skills)

\* An apply with two system calls whose order by name alone is the other
\* way round.
C10_Witness ==
    /\ last.op = "apply"
    /\ \E k, l \in 1..Len(last.log) :
          k < l /\ StrLess(last.log[l].name, last.log[k].name)

\* C11: every symbolic link a link operation (an apply, LinkToProvider)
\* creates is for a name that is a skill of the central store, so that it
\* resolves to the store's entry of that name.
C11_CreatedLinksResolve ==
    last.op \in {"apply", "link"} =>
        \A n \in Names :
            (last.post.ent[n] = "managed" /\ last.pre.ent[n] # "managed") =>
                last.preStore[n] = "dir"

\* Whether the file holds a document with an entry for name n.
Recorded(file, n) == file.kind = "doc" /\ n \in DOMAIN file.skills

\* C12: a record that succeeds sets updatedAt to now; it keeps the
\* installedAt of the entry the skill already had, and sets installedAt to
\* now only when the skill had no entry.
C12_RecordKeepsInstalledAt ==
    (lastLock.op = "add" /\ lastLock.res = "ok") =>
        LET e == lastLock.post.skills[lastLock.name]
        IN  /\ e.UpdatedAt = lastLock.now
            /\ e.InstalledAt =
                  IF Recorded(lastLock.pre, lastLock.name)
                  THEN lastLock.pre.skills[lastLock.name].InstalledAt
                  ELSE lastLock.now

\* Whether the declared fields of entries d and e are equal.
SameDeclared(d, e) == UnmarshalEntry(d) = UnmarshalEntry(e)

\* Every AddToLock keeps the recorded names, and the declared fields of
\* every other entry.
LockDeclaredFieldsKept ==
    (lastLock.op = "add" /\ lastLock.pre.kind = "doc") =>
        /\ lastLock.post.kind = "doc"
        /\ DOMAIN lastLock.pre.skills \subseteq DOMAIN lastLock.post.skills
        /\ \A m \in DOMAIN lastLock.pre.skills \ {lastLock.name} :
              SameDeclared(lastLock.post.skills[m], lastLock.pre.skills[m])

\* C13: a record keeps every recorded name, and leaves the entry of every
\* other skill as it was on disk.
C13_RecordKeepsOtherEntries ==
    (lastLock.op = "add" /\ lastLock.pre.kind = "doc") =>
        /\ lastLock.post.kind = "doc"
        /\ DOMAIN lastLock.pre.skills \subseteq DOMAIN lastLock.post.skills
        /\ \A m \in DOMAIN lastLock.pre.skills \ {lastLock.name} :
              lastLock.post.skills[m] = lastLock.pre.skills[m]

C15_PersistLoadedKeepsDocument ==
    (lastLock.op = "persist" /\ lastLock.pre.kind = "doc") =>
        lastLock.post = lastLock.pre

\* Persisting a loaded document keeps its version, its entries' names and
\* their declared fields.
PersistKeepsDeclared ==
    (lastLock.op = "persist" /\ lastLock.pre.kind = "doc") =>
        /\ lastLock.post.kind = "doc"
        /\ lastLock.post.version = lastLock.pre.version
        /\ DOMAIN lastLock.post.skills = DOMAIN lastLock.pre.skills
        /\ \A m \in DOMAIN lastLock.pre.skills :
              SameDeclared(lastLock.post.skills[m], lastLock.pre.skills[m])

\* C16: listing a central store whose directory does not exist gives no
\* skill and no error, in every operation that lists it.
C16_MissingStoreListsEmpty ==
    (lastList.op # "none" /\ lastList.state = "missing") =>
        (~lastList.err /\ lastList.skills = {} /\ lastList.total = 0)

\* C17: listing a central store whose directory exists and cannot be read
\* ends with an error; it is not answered as a store without skills.
C17_UnreadableStoreIsAnError ==
    (lastList.op # "none" /\ lastList.state = "unreadable") => lastList.err

\* The skills of a store: its subdirectories, platform artifacts left out.
SkillSet(st) == {n \in DOMAIN st : st[n] = "dir" /\ n # ".DS_Store"}

\* C18: every listing of a readable store counts exactly its skills: the
\* names it gives and the total it gives are those of the subdirectories.
C18_ListingsCountSubdirectories ==
    (lastList.op # "none" /\ lastList.state = "ok") =>
        /\ ~lastList.err
        /\ lastList.total = Cardinality(SkillSet(lastList.store))
        /\ lastList.op # "loadProviders" =>
              lastList.skills = SkillSet(lastList.store)

\* C19: a probe ends with one result for each known provider, in the order
\* of the registry, whatever happened to the directories meanwhile; a
\* provider whose directory was gone or unreadable at the listing is
\* reported with no link, and so is one that is not configured.
C19_ProbeToleratesLostDirectory ==
    probe.pc = "done" =>
        /\ Len(probe.out) = Len(KnownProviders)
        /\ \A i \in 1..Len(probe.out) :
              /\ probe.out[i].Name = KnownProviders[i]
              /\ probe.out[i].Name \in probe.lost => probe.out[i].SkillCount = 0
              /\ ~probe.out[i].Configured => probe.out[i].SkillCount = 0

\* A finished probe in which the directory of the first provider was lost
\* between os.Stat and os.ReadDir and the second provider was found
\* configured.
C19_Witness ==
    /\ probe.pc = "done"
    /\ KnownProviders[1] \in probe.lost
    /\ Len(probe.out) = 2 /\ probe.out[2].Configured

\* Whether list providers shows each provider configured exactly when its
\* directory exists.
FlagsFollowDirectories(providers) ==
    \A i \in 1..Len(providers) :
        providers[i].Configured <=> provDir[providers[i].Name].exists

\* C20: the status view and the config view show a provider configured
\* exactly when its directory exists, and what is saved of the flags names
\* exactly the providers whose directory exists.  Stated for the states in
\* which no other program has changed a directory behind the views.
C20_ConfiguredFollowsDirectory ==
    envCount = 0 =>
        /\ view = "status" => FlagsFollowDirectories(statusModel.providers)
        /\ view = "config" => FlagsFollowDirectories(configModel.providers)
        /\ configFile.saved =>
              Range(configFile.enabled_providers) =
                 {q \in Range(KnownProviders) : provDir[q].exists}

\* C21: Configure is idempotent.  It creates the directory when the
\* directory is absent and os.MkdirAll succeeds; it succeeds and changes
\* nothing on disk when the directory exists; calling it a second time in
\* the same environment leaves the provider, the directory and the answer
\* of the first call; and it marks the provider configured only when the
\* directory exists (with no other program in between, a configured
\* provider's directory exists).
C21_ConfigureIdempotent ==
    lastConfigure.op = "Configure" =>
        LET h     == lastConfigure
            once  == Configure(h.pre, h.preDir, h.fail)
            twice == Configure(once.p, once.dir, h.fail)
        IN  /\ ~h.preDir.exists /\ ~h.err => h.postDir.exists /\ h.post.Configured
            /\ h.preDir.exists => ~h.err /\ h.postDir = h.preDir
            /\ h.err => h.post = h.pre /\ h.postDir = h.preDir
            /\ twice.p = once.p /\ twice.dir = once.dir /\ twice.err = once.err
            /\ \A f \in BOOLEAN :
                  ~h.err => Configure(h.post, h.postDir, f) =
                               [p |-> h.post, dir |-> h.postDir, err |-> FALSE]
            /\ h.post.Configured /\ ~h.pre.Configured => h.postDir.exists
            /\ envCount = 0 /\ h.post.Configured => h.postDir.exists

\* Configure created the directory of a provider that was not configured.
C21_Witness ==
    /\ lastConfigure.op = "Configure"
    /\ ~lastConfigure.preDir.exists /\ ~lastConfigure.pre.Configured
    /\ ~lastConfigure.err
    /\ lastConfigure.postDir.exists /\ lastConfigure.post.Configured

\* Whether a skill name holds the separator, and the text before its first
\* occurrence.
HasSeparator(name) == \E i \in 1..Len(Bytes[name]) : Bytes[name][i] = Dash

Prefix(name) ==
    LET b == Bytes[name]
        f == CHOOSE i \in 1..Len(b) :
                 b[i] = Dash /\ \A j \in 1..(i - 1) : b[j] # Dash
    IN  SubSeq(b, 1, f - 1)

\* The group of a name without separator.
Sentinel == extractGroup("docker")

\* The name of the skill at position i of display list d over skills.
ItemName(skills, d, i) == skills[d[i].skillIdx].Name

\* The header the item at position i of display list d stands under.
HeaderOf(d, i) ==
    d[CHOOSE h \in 1..i : d[h].isGroup /\ \A k \in (h + 1)..i : ~d[k].isGroup]

\* C22: the sentinel group of the names without separator sorts after every
\* named group, so in every grouped listing the unclassified skills come
\* after every skill of a named group.
C22_SentinelGroupIsLast ==
    lastGroup.op = "build" =>
        LET d == lastGroup.displayList
            s == lastGroup.skills
        IN  /\ \A i \in 1..Len(d) :
                  d[i].isGroup /\ d[i].groupName # Sentinel
                      => StrLess(d[i].groupName, Sentinel)
            /\ \A i, j \in 1..Len(d) :
                  /\ ~d[i].isGroup /\ ~HasSeparator(ItemName(s, d, i))
                  /\ ~d[j].isGroup /\ HasSeparator(ItemName(s, d, j))
                  => j < i

\* C23: a name holding the separator gets the text before its first
\* occurrence as group and is never in the sentinel group; a name without
\* separator is in the sentinel group, which is no named group (the group of
\* no name holding the separator).
C23_GroupIsPrefixOrSentinel ==
    lastGroup.op = "build" =>
        LET s == lastGroup.skills
        IN  \A i \in 1..Len(s) :
               IF HasSeparator(s[i].Name)
               THEN Bytes[s[i].Group] = Prefix(s[i].Name) /\ s[i].Group # Sentinel
               ELSE /\ s[i].Group = Sentinel
                    /\ \A j \in 1..Len(s) :
                          HasSeparator(s[j].Name) => s[j].Group # s[i].Group

\* C24: for every input order the grouped listing has its group headers in
\* ascending order, the names under each header in ascending order, and
\* every skill exactly once, under the header of its own group.
C24_GroupedListingSorted ==
    lastGroup.op = "build" =>
        LET d == lastGroup.displayList
            s == lastGroup.skills
            items == {i \in 1..Len(d) : ~d[i].isGroup}
        IN  /\ \A i, j \in 1..Len(d) :
                  d[i].isGroup /\ d[j].isGroup /\ i < j
                      => StrLess(d[i].groupName, d[j].groupName)
            /\ \A i \in items :
                  i + 1 \in items
                      => StrLess(ItemName(s, d, i), ItemName(s, d, i + 1))
            /\ \A n \in Range(groupIn) :
                  Cardinality({i \in items : ItemName(s, d, i) = n}) = 1
            /\ \A i \in items :
                  /\ ItemName(s, d, i) \in Range(groupIn)
                  /\ HeaderOf(d, i).groupName = extractGroup(ItemName(s, d, i))
                  /\ d[i].groupName = extractGroup(ItemName(s, d, i))

\* A listing of two groups with two skills in one of them, built from an
\* input that was not in order.
C24_Witness ==
    /\ lastGroup.op = "build"
    /\ Len(groupIn) >= 3
    /\ \E i \in 1..(Len(groupIn) - 1) : StrLess(groupIn[i + 1], groupIn[i])
    /\ \E i, j \in 1..Len(lastGroup.skills) :
          i # j /\ lastGroup.skills[i].Group = lastGroup.skills[j].Group
    /\ Cardinality({lastGroup.skills[i].Group :
                       i \in 1..Len(lastGroup.skills)}) >= 2

\* C25: the list Enter's command answers with is read after every item of
\* that apply was processed: it is the list of the directory the whole loop
\* left, never that of a directory part of the way through.
C25_ReloadAfterWholeApply ==
    last.op = "apply" =>
        /\ last.post = applySkillChanges(last.prov, last.skills, last.pre,
                                         last.fail).dir
        /\ last.out = loadSkillsForProvider(last.prov, last.preStore, last.post)
        /\ manageModel.skills = last.out

\* An apply of two system calls whose reloaded list differs from the list of
\* the directory as it was before.
C25_Witness ==
    /\ last.op = "apply"
    /\ Len(last.log) >= 2
    /\ last.out # loadSkillsForProvider(last.prov, last.preStore, last.pre)

\* The names a registry answered with, none when it failed.
Answered(answer) == IF answer.err THEN {} ELSE Range(answer.results)

\* C29: the combined result holds no two skills of one name; of a name both
\* registries returned, the skills.sh entry is kept; the skills.sh entries
\* come first, then those of playbooks.com, each in its registry's order.
C29_CombinedResultUnique ==
    lastSearch.op = "SearchAll" =>
        LET out == lastSearch.skills
        IN  /\ \A i, j \in 1..Len(out) : i # j => out[i].Name # out[j].Name
            /\ \A i \in 1..Len(out) :
                  out[i].Name \in Answered(registry.skillsSh)
                      => out[i].Registry = "skills.sh"
            /\ \A i, j \in 1..Len(out) :
                  i < j =>
                     /\ out[j].Registry = "skills.sh"
                            => out[i].Registry = "skills.sh"
                     /\ out[i].Registry = out[j].Registry => out[i].ID < out[j].ID

\* Both registries returned a skill of the same name and playbooks.com one of
\* another name.
C29_Witness ==
    /\ lastSearch.op = "SearchAll"
    /\ Answered(registry.skillsSh) \cap Answered(registry.playbooks) # {}
    /\ Answered(registry.playbooks) \ Answered(registry.skillsSh) # {}
    /\ \E i \in 1..Len(lastSearch.skills) :
          lastSearch.skills[i].Registry = "playbooks.com"

\* C30: SearchAll never returns an error: the result holds every name a
\* registry that did not fail returned, whatever the other registry did, and
\* when both fail the result is empty with a nil error (the search view gets
\* searchResultsMsg, never searchErrMsg).
C30_SearchAllNeverFails ==
    lastSearch.op = "SearchAll" =>
        /\ ~lastSearch.err
        /\ lastSearch.msg = "searchResultsMsg"
        /\ {lastSearch.skills[i].Name : i \in 1..Len(lastSearch.skills)}
              = Answered(registry.skillsSh) \cup Answered(registry.playbooks)
        /\ registry.skillsSh.err /\ registry.playbooks.err
              => lastSearch.skills = <<>>

\* One registry failed and the skills of the other were returned.
C30_Witness ==
    /\ lastSearch.op = "SearchAll"
    /\ registry.skillsSh.err /\ ~registry.playbooks.err
    /\ lastSearch.skills # <<>>
    /\ ~lastSearch.err

\* C26: Esc in the preview view leads to the search view; Esc in the search,
\* manage or config view leads to the status view; q in the status view
\* quits; s opens the search view from the status view and from no other
\* view.
C26_NavigationFollowsKeys ==
    /\ lastKey.key = "esc" /\ lastKey.from = "preview" => view = "search"
    /\ lastKey.key = "esc" /\ lastKey.from \in {"search", "manage", "config"}
          => view = "status"
    /\ lastKey.key = "q" /\ lastKey.from = "status" => tui.quit
    /\ lastKey.key = "s" /\ lastKey.from = "status"
          => view = "search" /\ tui.searchModel = NewSearchModel
    /\ lastKey.key = "s" /\ lastKey.from # "status" => view = lastKey.from
    /\ tui.quit => lastKey.key \in {"q", "ctrl+c"} /\ lastKey.from = "status"

\* Esc was pressed in a preview that was opened from the search results.
C26_Witness ==
    /\ lastKey = [key |-> "esc", from |-> "preview"]
    /\ view = "search"
    /\ tui.searchModel.results

\* C27: started by the preview command, the program does not stay in the
\* preview view loading for ever: the view shows the documentation or an
\* error, unless the user left it before.
C27_PreviewLeavesLoading ==
    <>(view # "preview" \/ (~tui.previewModel.loading
                             /\ tui.previewModel.shown \in {"content", "error"}))

\* C28: in the search view with the focus on the input, a printable
\* character that is typed is appended to the query and the search view
\* stays; no key but Esc leaves the search view.
C28_TypingStaysInSearch ==
    [][(/\ lastKey' # NoKey
        /\ view = "search"
        /\ tui.searchModel.focusOnInput)
       => /\ lastKey'.key \in Printable
              => /\ view' = "search"
                 /\ tui'.searchModel.input
                       = Append(tui.searchModel.input, lastKey'.key)
          /\ view' # "search" => lastKey'.key = "esc"]_vars

\* C36: AddToLock ends with a result for every lock file ReadLockFile
\* accepts: on a document without a skills map the record is added and
\* written, or an error is returned; the operation does not crash.
C36_AddToLockEndsWithResult ==
    lastLock.op = "add" =>
        /\ lastLock.res \in {"ok", "error"}
        /\ lastLock.res = "ok" =>
              /\ lastLock.post.kind = "doc"
              /\ lastLock.name \in DOMAIN lastLock.post.skills
        /\ lastLock.res = "error" => lastLock.post = lastLock.pre

\* C40: Space on a group header sets the selection of exactly the skills of
\* that group: all unselected when all were selected, otherwise all
\* selected; the skills of other groups, and everything but Selected, stay.
C40_ToggleGroupSetsItsGroup ==
    last.op = "toggleGroup" =>
        LET pre     == last.skills
            post    == manageModel.skills
            members == {i \in 1..Len(pre) : pre[i].Group = last.name}
            all     == \A i \in members : pre[i].Selected
        IN  /\ Len(post) = Len(pre)
            /\ members # {}
            /\ \A i \in 1..Len(pre) :
                  IF i \in members
                  THEN post[i] = [pre[i] EXCEPT !.Selected = ~all]
                  ELSE post[i] = pre[i]

\* A group of two skills, one of them selected, was toggled beside a
\* selected skill of another group.
C40_Witness ==
    /\ last.op = "toggleGroup"
    /\ \E i, j \in 1..Len(last.skills) :
          /\ i # j
          /\ last.skills[i].Group = last.name /\ last.skills[i].Selected
          /\ last.skills[j].Group = last.name /\ ~last.skills[j].Selected
    /\ \E k \in 1..Len(last.skills) :
          last.skills[k].Group # last.name /\ last.skills[k].Selected

\* C35: in the config view, whenever dirty is false the registries, repos
\* and providers in memory are what was last written to the config file,
\* also when something was changed between the save key and the arrival of
\* the saved message; and a key that changes nothing does not set dirty.
C35_DirtyTracksFile ==
    /\ (view = "config" /\ ~configView.dirty /\ configDisk.written)
       => configDisk = configData(configView.registries, configView.repos,
                                  configView.providers)
    /\ (lastConfigKey.from = "config" /\ ~lastConfigKey.dirty
        /\ view = "config" /\ configView.dirty)
       => lastConfigKey.changed

\* C39: while a repository is being added in the config view, Esc drops the
\* text input and leaves the program in the config view with the repos as
\* they were, and every key other than Enter and Esc goes to the text input.
C39_EscCancelsTextInput ==
    (lastConfigKey.from = "config" /\ lastConfigKey.adding)
    => /\ lastConfigKey.key = "esc"
          => /\ view = "config"
             /\ ~configView.addingRepo
             /\ configView.textInput = <<>>
             /\ ~lastConfigKey.changed
       /\ lastConfigKey.key \notin {"enter", "esc"}
          => /\ view = "config"
             /\ configView.addingRepo
             /\ lastConfigKey.key \in Printable
                => /\ configView.textInput # <<>>
                   /\ configView.textInput[Len(configView.textInput)]
                        = lastConfigKey.key

\* C31: an apply creates and removes the links of the selection that was
\* shown when Enter was pressed: for every item, what the running command
\* does is what the item's flags at Enter ask for, whatever was toggled
\* while it ran.
C31_ApplyActsOnShownSelection ==
    lastManage.op = "item"
    => planAction(lastManage.read[1]) = planAction(lastManage.shown[1])

\* C32: the list the manage view holds was loaded for the provider the view
\* was opened on, never for a provider opened before.
C32_ListIsOfOpenProvider ==
    (view = "manage" /\ lastManage.listFor # "")
    => lastManage.listFor = manageModel.provider.Name

\* C37: an apply for one provider writes to that provider's directory
\* alone: no step changes the central store (removing a managed link leaves
\* the skill in place), and a provider's directory changes only in a step
\* of an apply made for that provider.
C37_ApplyTouchesOneDirectory ==
    [][/\ store' = store
       /\ \A q \in Range(KnownProviders) :
             provDir'[q] # provDir[q]
             => /\ lastManage'.op \in {"item", "applied"}
                /\ lastManage'.prov = q]_vars

\* An apply has removed a managed link: the store still holds the skill.
C37_Witness ==
    /\ lastManage.op = "item"
    /\ \E c \in lastManage.calls :
          /\ c.op = "remove" /\ c.ok
          /\ provDir[lastManage.prov].ent[c.name] = "none"
          /\ store[c.name] = "dir"
    /\ \E q \in Range(KnownProviders) :
          /\ q # lastManage.prov
          /\ \E n \in AsyncNames : provDir[q].ent[n] = "managed"

\* C33: selectedIdx is a valid position: 0 when the display list is empty,
\* and otherwise at least 0 and less than the length of the display list.
C33_SelectedIdxValid ==
    /\ cursor.len = 0 => cursor.selectedIdx = 0
    /\ cursor.len > 0 => (0 <= cursor.selectedIdx
                          /\ cursor.selectedIdx < cursor.len)

\* C34: after every navigation key the paginator's page is the page of the
\* selected item, selectedIdx / perPage, also when the paginator's own
\* Update has handled the key.
C34_PageFollowsSelection ==
    lastNav \in NavKeys
    => cursor.Page = GoDiv(cursor.selectedIdx, perPage)

\* C38: when no further key is pressed, the status view leaves its loading
\* state and shows the providers: from some point on, whenever the program
\* is in the status view, the view shows the providers.
C38_StatusShowsProviders ==
    <>[]((view = "status" /\ ~statusView.quit)
         => statusShows(statusView) = "providers")

====
